---- MODULE Spec2Model ----
(***************************************************************************)
(* Component tree engine of reterm: the parent/child ownership relation,   *)
(* the id / name uniqueness checks of add_child and the lifecycle state    *)
(* machine (mount, unmount, update) of reterm/component.py.                *)
(*                                                                         *)
(* A fixed pool of component instances stands for the objects a host has   *)
(* constructed; every action is one call of a public method by the host.   *)
(***************************************************************************)
EXTENDS Integers, Sequences, FiniteSets, TLC

\* ------------------------------------------------------------------ bounds

\* Number of component instances the host has constructed.
NComp == 3
\* Number of host calls explored from the initial state of Spec.
MaxOps == 4
\* Number of host calls explored from the initial state of SpecLifecycle.
MaxLifecycleOps == 6

Comp == 1..NComp

\* Python's None, as a component reference and as an id / name value.
None == 0
NoValue == "None"
\* Values a host passes as id= and as props["name"].
IdValues == {"x"}
NameValues == {"n"}

\* ComponentState (constants.py)
CREATED == "created"
MOUNTED == "mounted"
UPDATED == "updated"
UNMOUNTED == "unmounted"

\* Events (constants.py)
EvMOUNT == "mount"
EvUNMOUNT == "unmount"
EvUPDATE == "update"
EvRENDER == "render"
\* An input event a host passes to handle_event.
EvINPUT == "click"

\* Depth at which a recursion is known to run round a cycle of the pool: the
\* interpreter then ends it with RecursionError (recursive methods) or it
\* never ends (the while loop of root).
Fuel == 2 * NComp + 2

\* Results of a walk that does not come back with a component.
Hang == -1
Overflow == -2

VARIABLES
    id,               \* Component.id, fixed at construction
    name,             \* Component.name (props["name"]), fixed at construction
    children,         \* Component._children: ordered list of components
    parent,           \* Component._parent: a component or None
    is_mounted,       \* Component._is_mounted
    lifecycle_state,  \* Component._lifecycle_state
    emitted,          \* the emit() calls of the last host call, in order
    observed,         \* per emit() call of the log: the mounted flag and the
                      \* lifecycle state of the emitter when the call is made,
                      \* which is what a handler finds
    lastOp,           \* the last host call and how it ended
    hung,             \* the program is inside a call that never returns
    steps_left        \* host calls still explored

\* Emitters that are not components, the handlers a host registers on them and
\* the named signals of the signal library, which are shared by every emitter of
\* the process.
VARIABLES
    signals,          \* EventEmitter._signals: the event names an emitter has a signal for
    event_handlers,   \* EventEmitter._event_handlers: per event name, the list of handlers
    receivers,        \* per event name, the receivers connected to the signal of that name
    calls,            \* the handler bodies run by the last host call, in order
    lastEv,           \* the last host call on an emitter
    once_made         \* number of one_time_handler closures created so far

eventVars == <<signals, event_handlers, receivers, calls, lastEv, once_made>>

\* Geometry of the components and the layout settings of the containers.
VARIABLES
    is_container,     \* the instance is a Container (fixed at construction)
    is_visible,       \* Component._is_visible
    position,         \* Component._position: <<y, x>>
    size,             \* Component._size: <<height, width>>
    layout_direction, \* Container._layout_direction
    layout_spacing    \* Container._layout_spacing

layoutVars == <<is_container, is_visible, position, size, layout_direction,
                layout_spacing>>

\* The state container every component owns (Component.state).
VARIABLES
    state,            \* State._state of the component's state container
    previous_state,   \* State._previous_state
    notified          \* the STATE_CHANGE emits of the last host call: their kwargs

stateVars == <<state, previous_state, notified>>

\* Propagation of input events down the tree (handle_event).
VARIABLES
    handles,          \* the instance is of a subclass whose handle_event reports
                      \* the event as handled (fixed at construction)
    offered           \* the handle_event calls of the last host call, in order

propagationVars == <<handles, offered>>

\* The process-wide singletons: the class attributes _instance of StateManager
\* and of EventBus and the fields of the one instance of each.
VARIABLES
    manager_made,     \* StateManager._instance is not None
    states,           \* StateManager._states: per name, the State object or Absent
    states_made,      \* number of State objects created by create_state so far
    bus_made,         \* EventBus._instance is not None
    lastReg           \* the last host call on a singleton and what it returned

singletonVars == <<manager_made, states, states_made, bus_made, lastReg>>

\* Handlers a host registers on a component's UPDATE or RENDER event that write
\* to the component's own state.
VARIABLES
    handler_of,       \* per component, the handler registered with on(), or NoHandler
    nesting           \* the deepest nesting of update() calls in the last host call

reactiveVars == <<handler_of, nesting>>

\* What the methods of the component tree leave alone.
outsideTree == <<eventVars, layoutVars, stateVars, propagationVars, singletonVars,
                 reactiveVars>>

vars == <<id, name, children, parent, is_mounted, lifecycle_state,
          emitted, observed, lastOp, hung, steps_left, outsideTree>>

\* Handlers that write to the state of their component: the events a host
\* registers one on, and what it writes: the same value on every run, or a
\* value other than the one it finds.
HandlerEvents == {EvUPDATE, EvRENDER}
HandlerKinds == {"fixed", "changing"}
NoWriter == [event |-> "", writes |-> ""]
Writers == [event : HandlerEvents, writes : HandlerKinds]

\* The fields of the instances, as Component.__init__ declares them.
TypeOK ==
    /\ id \in [Comp -> IdValues \cup {NoValue}]
    /\ name \in [Comp -> NameValues \cup {NoValue}]
    /\ children \in [Comp -> Seq(Comp)]
    /\ parent \in [Comp -> Comp \cup {None}]
    /\ is_mounted \in [Comp -> BOOLEAN]
    /\ lifecycle_state \in [Comp -> {CREATED, MOUNTED, UPDATED, UNMOUNTED}]
    /\ emitted \in Seq(Comp \X {EvMOUNT, EvUNMOUNT, EvUPDATE, EvRENDER, EvINPUT})
    /\ observed \in Seq(BOOLEAN \X {CREATED, MOUNTED, UPDATED, UNMOUNTED})
    /\ hung \in BOOLEAN
    /\ steps_left \in Nat
    /\ handler_of \in [Comp -> Writers \cup {NoWriter}]
    /\ nesting \in Nat

\* ----------------------------------------------------------------- helpers

InSeq(x, s) == \E i \in 1..Len(s) : s[i] = x

\* The elements of a finite set of strings, in some fixed order.
RECURSIVE SetToSeq(_)
SetToSeq(S) ==
    IF S = {} THEN <<>>
    ELSE LET x == CHOOSE y \in S : TRUE IN <<x>> \o SetToSeq(S \ {x})

\* list.remove(x): drops the first occurrence of x.
RECURSIVE list_remove(_, _)
list_remove(s, x) ==
    IF s = <<>> THEN <<>>
    ELSE IF Head(s) = x THEN Tail(s)
    ELSE <<Head(s)>> \o list_remove(Tail(s), x)

\* ---------------------------------------------------------- tree traversal

\* Component.root: follows _parent until it is None.  The loop never ends on
\* a cycle of parent references.
RECURSIVE root_walk(_, _, _)
root_walk(par, c, fuel) ==
    IF par[c] = None THEN c
    ELSE IF fuel = 0 THEN Hang
    ELSE root_walk(par, par[c], fuel - 1)

root(par, c) == root_walk(par, c, Fuel)

\* Component.find_by_id: depth-first, self first, then the children in order;
\* the first match is returned.  Overflow is RecursionError.
RECURSIVE find_by_id(_, _, _, _)
RECURSIVE find_in_children(_, _, _, _, _)
find_by_id(ch, c, i, fuel) ==
    IF fuel = 0 THEN Overflow
    ELSE IF id[c] = i THEN c
    ELSE find_in_children(ch, ch[c], 1, i, fuel - 1)

find_in_children(ch, list, k, i, fuel) ==
    IF k > Len(list) THEN None
    ELSE LET found == find_by_id(ch, list[k], i, fuel)
         IN IF found # None THEN found
            ELSE find_in_children(ch, list, k + 1, i, fuel)

\* Component._get_all_descendants: pre-order list of the descendants; err is
\* RecursionError.
RECURSIVE get_all_descendants(_, _, _)
RECURSIVE descendants_of_list(_, _, _, _)
get_all_descendants(ch, c, fuel) ==
    IF fuel = 0 THEN [err |-> TRUE, list |-> <<>>]
    ELSE descendants_of_list(ch, ch[c], 1, fuel - 1)

descendants_of_list(ch, list, k, fuel) ==
    IF k > Len(list) THEN [err |-> FALSE, list |-> <<>>]
    ELSE LET sub == get_all_descendants(ch, list[k], fuel)
         IN IF sub.err THEN sub
            ELSE LET rest == descendants_of_list(ch, list, k + 1, fuel)
                 IN IF rest.err THEN rest
                    ELSE [err |-> FALSE, list |-> <<list[k]>> \o sub.list \o rest.list]

\* --------------------------------------------------------------- lifecycle
\* The lifecycle methods work on a record of the fields they touch:
\*   m   _is_mounted of every component     ls   _lifecycle_state
\*   log the emit() calls made so far       err  RecursionError was raised

emit(st, c, ev) ==
    [st EXCEPT !.log = Append(@, <<c, ev>>),
               !.seen = Append(@, <<st.m[c], st.ls[c]>>)]

RECURSIVE mount(_, _, _)
RECURSIVE mount_children(_, _, _, _)

\* Variant of mount whose emit is outside the mounted test.
mount_emits_always(st, ch, c) ==
    IF st.m[c] THEN emit(st, c, EvMOUNT)
    ELSE mount_children(
            emit([st EXCEPT !.m[c] = TRUE, !.ls[c] = MOUNTED], c, EvMOUNT),
            ch, ch[c], 1)

\* Variant of mount that emits MOUNT before it assigns the fields.
mount_emits_first(st, ch, c) ==
    IF st.m[c] THEN st
    ELSE mount_children(
            [emit(st, c, EvMOUNT) EXCEPT !.m[c] = TRUE, !.ls[c] = MOUNTED],
            ch, ch[c], 1)

\* Variant of mount that sets the flag and leaves the lifecycle state.
mount_without_state(st, ch, c) ==
    IF st.m[c] THEN st
    ELSE mount_children(emit([st EXCEPT !.m[c] = TRUE], c, EvMOUNT), ch, ch[c], 1)

\* Component.mount
mount(st, ch, c) ==
    IF st.m[c] THEN st
    ELSE mount_children(
            emit([st EXCEPT !.m[c] = TRUE, !.ls[c] = MOUNTED], c, EvMOUNT),
            ch, ch[c], 1)

mount_children(st, ch, list, k) ==
    IF k > Len(list) THEN st
    ELSE mount_children(mount(st, ch, list[k]), ch, list, k + 1)

RECURSIVE unmount(_, _, _, _)
RECURSIVE unmount_children(_, _, _, _, _)

\* Variant of unmount without the mounted test.
unmount_without_mounted_test(st, ch, c, fuel) ==
    IF st.err THEN st
    ELSE IF fuel = 0 THEN [st EXCEPT !.err = TRUE]
    ELSE LET s1 == unmount_children(st, ch, ch[c], 1, fuel - 1)
         IN IF s1.err THEN s1
            ELSE emit([s1 EXCEPT !.m[c] = FALSE, !.ls[c] = UNMOUNTED],
                      c, EvUNMOUNT)

\* Component.unmount
unmount(st, ch, c, fuel) ==
    IF st.err THEN st
    ELSE IF fuel = 0 THEN [st EXCEPT !.err = TRUE]
    ELSE IF ~st.m[c] THEN st
    ELSE LET s1 == unmount_children(st, ch, ch[c], 1, fuel - 1)
         IN IF s1.err THEN s1
            ELSE emit([s1 EXCEPT !.m[c] = FALSE, !.ls[c] = UNMOUNTED],
                      c, EvUNMOUNT)

unmount_children(st, ch, list, k, fuel) ==
    IF st.err \/ k > Len(list) THEN st
    ELSE unmount_children(unmount(st, ch, list[k], fuel), ch, list, k + 1, fuel)

\* Component.render
render(st, c) == emit(st, c, EvRENDER)

\* Variant of update without the mounted test.
update_unguarded(st, c) ==
    render(emit([st EXCEPT !.ls[c] = UPDATED], c, EvUPDATE), c)

\* Component.update
update(st, c) ==
    IF st.m[c]
    THEN render(emit([st EXCEPT !.ls[c] = UPDATED], c, EvUPDATE), c)
    ELSE st

\* ------------------------------------------------------------- add / remove

\* Variant of id_check that searches below the parent only, not from its root.
id_check_below_parent(ch, par, p, i) ==
    LET existing == find_by_id(ch, p, i, Fuel)
    IN IF existing = Overflow THEN "recursion_error"
       ELSE IF existing # None THEN "dup_id"
       ELSE "pass"

\* The search add_child makes for one id: root, then find_by_id from it.
id_check(ch, par, p, i) ==
    LET r == root(par, p)
    IN IF r = Hang THEN "hang"
       ELSE LET existing == find_by_id(ch, r, i, Fuel)
            IN IF existing = Overflow THEN "recursion_error"
               ELSE IF existing # None THEN "dup_id"
               ELSE "pass"

\* The loop of add_child over the descendants of the child.
RECURSIVE descendants_check(_, _, _, _, _)
descendants_check(ch, par, p, d, k) ==
    IF k > Len(d) THEN "pass"
    ELSE IF id[d[k]] # NoValue /\ id_check(ch, par, p, id[d[k]]) # "pass"
         THEN id_check(ch, par, p, id[d[k]])
         ELSE descendants_check(ch, par, p, d, k + 1)

\* Variant of add_child_checks that never compares names.
add_child_checks_without_names(ch, par, p, c) ==
    IF InSeq(c, ch[p]) THEN "noop"
    ELSE IF id[c] # NoValue /\ id_check(ch, par, p, id[c]) # "pass"
         THEN id_check(ch, par, p, id[c])
    ELSE LET d == get_all_descendants(ch, c, Fuel)
         IN IF d.err THEN "recursion_error"
            ELSE descendants_check(ch, par, p, d.list, 1)

\* The checks of add_child, in the order the code makes them:
\*   "noop"  child is already in _children      "dup_name" / "dup_id"  ValueError
\*   "recursion_error"  RecursionError          "hang"  the call never returns
\*   "pass"  the child is appended
add_child_checks(ch, par, p, c) ==
    IF InSeq(c, ch[p]) THEN "noop"
    ELSE IF name[c] # NoValue
            /\ \E k \in 1..Len(ch[p]) : name[ch[p][k]] = name[c]
         THEN "dup_name"
    ELSE IF id[c] # NoValue /\ id_check(ch, par, p, id[c]) # "pass"
         THEN id_check(ch, par, p, id[c])
    ELSE LET d == get_all_descendants(ch, c, Fuel)
         IN IF d.err THEN "recursion_error"
            ELSE descendants_check(ch, par, p, d.list, 1)

\* Variant of add_child that appends the child before it searches for its id.
add_child_appends_before_id_check(ch, par, st, p, c) ==
    LET res == add_child_checks(ch, par, p, c)
        ch2 == [ch EXCEPT ![p] = Append(@, c)]
    IN IF res = "pass"
       THEN [children |-> ch2,
             parent   |-> [par EXCEPT ![c] = p],
             st       |-> IF st.m[p] THEN mount(st, ch2, c) ELSE st,
             result   |-> "ok"]
       ELSE IF res = "dup_id"
       THEN [children |-> ch2, parent |-> par, st |-> st, result |-> res]
       ELSE [children |-> ch, parent |-> par, st |-> st, result |-> res]

\* Component.add_child(child) called on p, on the fields ch (_children),
\* par (_parent) and the lifecycle record st.
add_child(ch, par, st, p, c) ==
    LET res == add_child_checks(ch, par, p, c)
    IN IF res = "pass"
       THEN LET ch2 == [ch EXCEPT ![p] = Append(@, c)]
            IN [children |-> ch2,
                parent   |-> [par EXCEPT ![c] = p],
                st       |-> IF st.m[p] THEN mount(st, ch2, c) ELSE st,
                result   |-> "ok"]
       ELSE [children |-> ch, parent |-> par, st |-> st, result |-> res]

\* Component.remove_child(child) called on p.
remove_child(ch, par, st, p, c) ==
    IF ~InSeq(c, ch[p])
    THEN [children |-> ch, parent |-> par, st |-> st, result |-> "noop"]
    ELSE LET s1 == IF st.m[p] THEN unmount(st, ch, c, Fuel) ELSE st
         IN IF s1.err
            THEN [children |-> ch, parent |-> par, st |-> s1,
                  result |-> "recursion_error"]
            ELSE [children |-> [ch EXCEPT ![p] = list_remove(@, c)],
                  parent   |-> [par EXCEPT ![c] = None],
                  st       |-> s1,
                  result   |-> "ok"]

LifeState ==
    [m |-> is_mounted, ls |-> lifecycle_state, log |-> <<>>, seen |-> <<>>,
     err |-> FALSE]

\* ------------------------------------------------------------------ actions

CanStep == steps_left > 0 /\ ~hung

\* The host calls p.add_child(c).
AddChild(p, c) ==
    /\ CanStep
    /\ steps_left' = steps_left - 1
    /\ LET r == add_child(children, parent, LifeState, p, c)
       IN /\ children' = r.children
          /\ parent' = r.parent
          /\ is_mounted' = r.st.m
          /\ lifecycle_state' = r.st.ls
          /\ emitted' = r.st.log
          /\ observed' = r.st.seen
          /\ hung' = (r.result = "hang")
          /\ lastOp' = [op |-> "add_child", self |-> p, arg |-> c,
                        result |-> r.result]
    /\ UNCHANGED <<id, name>>
    /\ UNCHANGED outsideTree

\* The host calls p.remove_child(c).
RemoveChild(p, c) ==
    /\ CanStep
    /\ steps_left' = steps_left - 1
    /\ LET r == remove_child(children, parent, LifeState, p, c)
       IN /\ children' = r.children
          /\ parent' = r.parent
          /\ is_mounted' = r.st.m
          /\ lifecycle_state' = r.st.ls
          /\ emitted' = r.st.log
          /\ observed' = r.st.seen
          /\ lastOp' = [op |-> "remove_child", self |-> p, arg |-> c,
                        result |-> r.result]
    /\ UNCHANGED <<id, name, hung>>
    /\ UNCHANGED outsideTree

\* The host calls c.mount().
Mount(c) ==
    /\ CanStep
    /\ steps_left' = steps_left - 1
    /\ LET st == mount(LifeState, children, c)
       IN /\ is_mounted' = st.m
          /\ lifecycle_state' = st.ls
          /\ emitted' = st.log
          /\ observed' = st.seen
    /\ lastOp' = [op |-> "mount", self |-> c, arg |-> None, result |-> "ok"]
    /\ UNCHANGED <<id, name, children, parent, hung>>
    /\ UNCHANGED outsideTree

\* The host calls c.unmount().
Unmount(c) ==
    /\ CanStep
    /\ steps_left' = steps_left - 1
    /\ LET st == unmount(LifeState, children, c, Fuel)
       IN /\ is_mounted' = st.m
          /\ lifecycle_state' = st.ls
          /\ emitted' = st.log
          /\ observed' = st.seen
          /\ lastOp' = [op |-> "unmount", self |-> c, arg |-> None,
                        result |-> IF st.err THEN "recursion_error" ELSE "ok"]
    /\ UNCHANGED <<id, name, children, parent, hung>>
    /\ UNCHANGED outsideTree

\* The host calls c.update().
Update(c) ==
    /\ CanStep
    /\ steps_left' = steps_left - 1
    /\ LET st == update(LifeState, c)
       IN /\ is_mounted' = st.m
          /\ lifecycle_state' = st.ls
          /\ emitted' = st.log
          /\ observed' = st.seen
    /\ lastOp' = [op |-> "update", self |-> c, arg |-> None, result |-> "ok"]
    /\ UNCHANGED <<id, name, children, parent, hung>>
    /\ UNCHANGED outsideTree

\* ------------------------------------------------------------------ layout
\* Container (container.py) and the geometry setters of Component.  The
\* methods work on a record of the fields they touch: those of the lifecycle
\* (m, ls, log, err) and
\*   pos  _position     size  _size     vis  _is_visible
\*   dir  _layout_direction            spacing  _layout_spacing

VERTICAL == "vertical"
HORIZONTAL == "horizontal"

Max(a, b) == IF a >= b THEN a ELSE b

\* RecursionError
Raise(ws) == [ws EXCEPT !.err = TRUE]

RECURSIVE child_render(_, _, _, _)
RECURSIVE Container_render(_, _, _, _)
RECURSIVE render_children(_, _, _, _, _)
RECURSIVE self_update(_, _, _, _)
RECURSIVE Container_update(_, _, _, _)
RECURSIVE calculate_layout(_, _, _, _)
RECURSIVE layout_vertical(_, _, _, _, _, _, _, _, _, _)
RECURSIVE layout_horizontal(_, _, _, _, _, _, _, _, _, _)
RECURSIVE set_position(_, _, _, _, _)
RECURSIVE set_size(_, _, _, _, _)

\* c.render(): Container.render for a container, Component.render otherwise.
child_render(ws, ch, c, fuel) ==
    IF ws.err THEN ws
    ELSE IF is_container[c] THEN Container_render(ws, ch, c, fuel)
    ELSE render(ws, c)

\* Container.render
Container_render(ws, ch, c, fuel) ==
    IF fuel = 0 THEN Raise(ws)
    ELSE render_children(render(ws, c), ch, ch[c], 1, fuel - 1)

render_children(ws, ch, list, k, fuel) ==
    IF ws.err \/ k > Len(list) THEN ws
    ELSE render_children(IF ws.vis[list[k]]
                         THEN child_render(ws, ch, list[k], fuel)
                         ELSE ws,
                         ch, list, k + 1, fuel)

\* c.update(): Container.update for a container, Component.update otherwise.
self_update(ws, ch, c, fuel) ==
    IF ws.err THEN ws
    ELSE IF is_container[c] THEN Container_update(ws, ch, c, fuel)
    ELSE update(ws, c)

\* Container.update: Component.update, whose self.render() is Container.render,
\* then calculate_layout.
Container_update(ws, ch, c, fuel) ==
    LET w1 == IF ws.m[c]
              THEN child_render(emit([ws EXCEPT !.ls[c] = UPDATED], c, EvUPDATE),
                                ch, c, fuel)
              ELSE ws
    IN calculate_layout(w1, ch, c, fuel)

\* The position and size setters of Component.
set_position(ws, ch, c, value, fuel) ==
    IF ws.err THEN ws
    ELSE LET w1 == [ws EXCEPT !.pos[c] = value]
         IN IF w1.m[c] THEN self_update(w1, ch, c, fuel) ELSE w1

set_size(ws, ch, c, value, fuel) ==
    IF ws.err THEN ws
    ELSE LET w1 == [ws EXCEPT !.size[c] = value]
         IN IF w1.m[c] THEN self_update(w1, ch, c, fuel) ELSE w1

\* Variant of layout_vertical that leaves the spacing out of the advance.
layout_vertical_without_spacing(ws, ch, list, k, current_y, start_x, height_per_child, container_width, spacing, fuel) ==
    IF ws.err \/ k > Len(list) THEN ws
    ELSE layout_vertical(
            set_size(set_position(ws, ch, list[k], <<current_y, start_x>>, fuel),
                     ch, list[k], <<height_per_child, container_width>>, fuel),
            ch, list, k + 1, current_y + height_per_child, start_x,
            height_per_child, container_width, spacing, fuel)

\* The loop of calculate_layout over the visible children, vertical axis.
layout_vertical(ws, ch, list, k, current_y, start_x, height_per_child, container_width, spacing, fuel) ==
    IF ws.err \/ k > Len(list) THEN ws
    ELSE layout_vertical(
            set_size(set_position(ws, ch, list[k], <<current_y, start_x>>, fuel),
                     ch, list[k], <<height_per_child, container_width>>, fuel),
            ch, list, k + 1, current_y + height_per_child + spacing, start_x,
            height_per_child, container_width, spacing, fuel)

\* The loop of calculate_layout over the visible children, horizontal axis.
layout_horizontal(ws, ch, list, k, start_y, current_x, container_height, width_per_child, spacing, fuel) ==
    IF ws.err \/ k > Len(list) THEN ws
    ELSE layout_horizontal(
            set_size(set_position(ws, ch, list[k], <<start_y, current_x>>, fuel),
                     ch, list[k], <<container_height, width_per_child>>, fuel),
            ch, list, k + 1, start_y, current_x + width_per_child + spacing,
            container_height, width_per_child, spacing, fuel)

\* Variant of calculate_layout that counts the hidden children too.
calculate_layout_counting_hidden(ws, ch, c, fuel) ==
    IF ws.err THEN ws
    ELSE IF fuel = 0 THEN Raise(ws)
    ELSE IF ch[c] = <<>> THEN ws
    ELSE LET visible_children == SelectSeq(ch[c], LAMBDA k : ws.vis[k])
             total_spacing == ws.spacing[c] * (Len(ch[c]) - 1)
         IN IF visible_children = <<>> THEN ws
            ELSE IF ws.dir[c] = VERTICAL
            THEN layout_vertical(ws, ch, visible_children, 1,
                    ws.pos[c][1], ws.pos[c][2],
                    Max(0, ws.size[c][1] - total_spacing) \div Len(ch[c]),
                    ws.size[c][2], ws.spacing[c], fuel - 1)
            ELSE layout_horizontal(ws, ch, visible_children, 1,
                    ws.pos[c][1], ws.pos[c][2],
                    ws.size[c][1],
                    Max(0, ws.size[c][2] - total_spacing) \div Len(ch[c]),
                    ws.spacing[c], fuel - 1)

\* Container.calculate_layout
calculate_layout(ws, ch, c, fuel) ==
    IF ws.err THEN ws
    ELSE IF fuel = 0 THEN Raise(ws)
    ELSE IF ch[c] = <<>> THEN ws
    ELSE LET visible_children == SelectSeq(ch[c], LAMBDA k : ws.vis[k])
             total_spacing == ws.spacing[c] * (Len(visible_children) - 1)
         IN IF visible_children = <<>> THEN ws
            ELSE IF ws.dir[c] = VERTICAL
            THEN layout_vertical(ws, ch, visible_children, 1,
                    ws.pos[c][1], ws.pos[c][2],
                    Max(0, ws.size[c][1] - total_spacing) \div Len(visible_children),
                    ws.size[c][2], ws.spacing[c], fuel - 1)
            ELSE layout_horizontal(ws, ch, visible_children, 1,
                    ws.pos[c][1], ws.pos[c][2],
                    ws.size[c][1],
                    Max(0, ws.size[c][2] - total_spacing) \div Len(visible_children),
                    ws.spacing[c], fuel - 1)

\* The values a host passes to the layout_direction setter.
Directions == {VERTICAL, HORIZONTAL, "diagonal"}

\* Variant of the layout_direction setter that stores before it validates.
layout_direction_setter_stores_first(ws, ch, c, direction, fuel) ==
    IF direction \notin {VERTICAL, HORIZONTAL}
    THEN [ws |-> [ws EXCEPT !.dir[c] = direction], raised |-> "value_error"]
    ELSE [ws |-> Container_update([ws EXCEPT !.dir[c] = direction], ch, c, fuel),
          raised |-> "none"]

\* The layout_direction setter of Container: the fields after the call and
\* the ValueError it raises for a value that is no axis.
layout_direction_setter(ws, ch, c, direction, fuel) ==
    IF direction \notin {VERTICAL, HORIZONTAL}
    THEN [ws |-> ws, raised |-> "value_error"]
    ELSE [ws |-> Container_update([ws EXCEPT !.dir[c] = direction], ch, c, fuel),
          raised |-> "none"]

\* Variant of the layout_spacing setter that stores its argument as it is.
layout_spacing_setter_unclamped(ws, ch, c, spacing, fuel) ==
    Container_update([ws EXCEPT !.spacing[c] = spacing], ch, c, fuel)

\* The layout_spacing setter of Container.
layout_spacing_setter(ws, ch, c, spacing, fuel) ==
    Container_update([ws EXCEPT !.spacing[c] = Max(0, spacing)], ch, c, fuel)

\* Container.__init__ on the instance c: the fields of a new container.
Container_init(ws, c) ==
    [ws EXCEPT !.m[c] = FALSE, !.ls[c] = CREATED, !.vis[c] = TRUE,
               !.pos[c] = <<0, 0>>, !.size[c] = <<0, 0>>,
               !.dir[c] = VERTICAL, !.spacing[c] = 0]

\* VBox.__init__ and HBox.__init__: Container.__init__, then the
\* layout_direction setter; a new instance has no children.
VBox_init(ws, ch, c) ==
    layout_direction_setter(Container_init(ws, c), [ch EXCEPT ![c] = <<>>],
                            c, VERTICAL, Fuel)
HBox_init(ws, ch, c) ==
    layout_direction_setter(Container_init(ws, c), [ch EXCEPT ![c] = <<>>],
                            c, HORIZONTAL, Fuel)

\* The fields of the components, as the record the methods work on.
World ==
    [m |-> is_mounted, ls |-> lifecycle_state, log |-> <<>>, seen |-> <<>>,
     err |-> FALSE,
     pos |-> position, size |-> size, vis |-> is_visible,
     dir |-> layout_direction, spacing |-> layout_spacing]

\* Variant of the visible setter without the comparison.
visible_setter_always_updates(ws, ch, c, value, fuel) ==
    LET w1 == [ws EXCEPT !.vis[c] = value]
    IN IF w1.m[c] THEN self_update(w1, ch, c, fuel) ELSE w1

\* The visible setter of Component.
visible_setter(ws, ch, c, value, fuel) ==
    IF ws.vis[c] # value
    THEN LET w1 == [ws EXCEPT !.vis[c] = value]
         IN IF w1.m[c] THEN self_update(w1, ch, c, fuel) ELSE w1
    ELSE ws

\* Largest height and width, largest spacing, and number of host calls explored
\* from the initial states of SpecLayout.
MaxExtent == 3
MaxSpacing == 2
MaxLayoutOps == 2

\* The fields of the components after a call that ended in the record ws and
\* returned or raised what result says.
LayoutReturn(ws, op, c, arg, result) ==
    /\ CanStep
    /\ steps_left' = steps_left - 1
    /\ is_mounted' = ws.m
    /\ lifecycle_state' = ws.ls
    /\ emitted' = ws.log
    /\ observed' = ws.seen
    /\ position' = ws.pos
    /\ size' = ws.size
    /\ is_visible' = ws.vis
    /\ layout_direction' = ws.dir
    /\ layout_spacing' = ws.spacing
    /\ lastOp' = [op |-> op, self |-> c, arg |-> arg, result |-> result]
    /\ UNCHANGED <<id, name, children, parent, hung, is_container, eventVars>>
    /\ UNCHANGED <<stateVars, propagationVars, singletonVars, reactiveVars>>

\* The fields of the components after a call that ended in the record ws.
LayoutCall(ws, op, c, arg) ==
    LayoutReturn(ws, op, c, arg, IF ws.err THEN "recursion_error" ELSE "ok")

\* The host calls c.calculate_layout() on a container.
CalculateLayout(c) ==
    /\ is_container[c]
    /\ LayoutCall(calculate_layout(World, children, c, Fuel),
                  "calculate_layout", c, None)

\* The host calls c.set_visible(v).
SetVisible(c, v) ==
    /\ v \in BOOLEAN
    /\ LayoutCall(visible_setter(World, children, c, v, Fuel),
                  "set_visible", c, IF v THEN 1 ELSE 0)

\* Position of the container, and its extent across the axis of the layout.
Origin == <<1, 2>>
CrossExtent == 5

\* Positions, sizes and spacings a host assigns.
Positions == {<<0, 0>>, Origin}
Sizes == {<<0, 0>>, <<MaxExtent, CrossExtent>>}
Spacings == -1..MaxSpacing

\* The host calls c.update() on a container.
ContainerUpdate(c) ==
    /\ is_container[c]
    /\ LayoutCall(self_update(World, children, c, Fuel), "update", c, None)

\* The host assigns c.position = v.
SetPosition(c, v) ==
    /\ v \in Positions
    /\ LayoutCall(set_position(World, children, c, v, Fuel), "set_position", c, v)

\* The host assigns c.size = v.
SetSize(c, v) ==
    /\ v \in Sizes
    /\ LayoutCall(set_size(World, children, c, v, Fuel), "set_size", c, v)

\* The host assigns c.layout_direction = d on a container.
SetLayoutDirection(c, d) ==
    /\ is_container[c]
    /\ LET r == layout_direction_setter(World, children, c, d, Fuel)
       IN LayoutReturn(r.ws, "set_layout_direction", c, d,
                       IF r.raised # "none" THEN r.raised
                       ELSE IF r.ws.err THEN "recursion_error" ELSE "ok")

\* The host assigns c.layout_spacing = s on a container.
SetLayoutSpacing(c, s) ==
    /\ is_container[c]
    /\ LayoutCall(layout_spacing_setter(World, children, c, s, Fuel),
                  "set_layout_spacing", c, s)

\* The host calls c.render().
Render(c) ==
    /\ CanStep
    /\ LayoutCall(child_render(World, children, c, Fuel), "render", c, None)

\* Component.__init__ and Container.__init__: the geometry and the layout
\* settings of a new instance.
DefaultGeometry ==
    /\ is_container = [c \in Comp |-> FALSE]
    /\ is_visible = [c \in Comp |-> TRUE]
    /\ position = [c \in Comp |-> <<0, 0>>]
    /\ size = [c \in Comp |-> <<0, 0>>]
    /\ layout_direction = [c \in Comp |-> VERTICAL]
    /\ layout_spacing = [c \in Comp |-> 0]

\* ---------------------------------------------------------------- emitters
\* EventEmitter (events.py) on top of the named signals of the signal library.
\* signal(name) returns the one signal of that name of the process, whichever
\* emitter asks for it; connect() without a sender subscribes the receiver to
\* every sender; the receivers of a signal are a set, which send() walks in no
\* particular order, skipping a receiver that was disconnected in the meantime.

\* Emitters a host has constructed, the event names it uses and its handlers.
NEmitter == 2
Emitter == 1..NEmitter
EventNames == {"e", "f"}
\* "h": a handler that only records the call.  "hr": a handler that records the
\* call and, unless it is already running, emits ReemitEvent on its sender.
HandlerFns == {"h", "hr"}
ReemitEvent == "e"
\* Handlers that change the registrations while they run: "hon" records the
\* call and registers "h" for ReemitEvent on its sender, "hoff" records the
\* call and takes "h" off ReemitEvent on its sender.
ReentrantFns == {"h", "hon", "hoff"}
\* Number of once() calls explored, and of host calls on emitters.
MaxOnce == 2
MaxEventOps == 4

\* A callable: a function of the host or a one_time_handler closure made by
\* once() on the emitter owner for the event ev and the host function fn.
Fn(h) == [kind |-> "fn", fn |-> h, owner |-> 0, ev |-> "", serial |-> 0]
one_time_handler(x, n, h, k) ==
    [kind |-> "once", fn |-> h, owner |-> x, ev |-> n, serial |-> k]
\* handler=None
NoHandler == [kind |-> "none", fn |-> "", owner |-> 0, ev |-> "", serial |-> 0]

\* The emitter methods work on a record of the fields they touch:
\*   sig  _signals     eh  _event_handlers     recv  receivers of the signals
\*   calls  the handler bodies run so far, as <<callable, sender>>
EmitterState ==
    [sig |-> signals, eh |-> event_handlers, recv |-> receivers, calls |-> <<>>]

\* Signal.connect(receiver) and Signal.disconnect(receiver) of the signal n.
connect(S, n, r) == [S EXCEPT !.recv[n] = @ \cup {r}]
disconnect(S, n, r) == [S EXCEPT !.recv[n] = @ \ {r}]

\* EventEmitter.on
EventEmitter_on(S, x, n, r) ==
    LET S1 == connect([S EXCEPT !.sig[x] = @ \cup {n}], n, r)
    IN [S1 EXCEPT !.eh[x][n] = Append(@, r)]

\* The loop of off() over the handlers of the event.
RECURSIVE disconnect_all(_, _, _, _)
disconnect_all(S, n, list, k) ==
    IF k > Len(list) THEN S
    ELSE disconnect_all(disconnect(S, n, list[k]), n, list, k + 1)

\* EventEmitter.off
EventEmitter_off(S, x, n, r) ==
    IF n \notin S.sig[x] THEN S
    ELSE IF r = NoHandler
    THEN [disconnect_all(S, n, S.eh[x][n], 1) EXCEPT !.eh[x][n] = <<>>]
    ELSE [disconnect(S, n, r) EXCEPT
            !.eh[x][n] = IF InSeq(r, @) THEN list_remove(@, r) ELSE @]

RECURSIVE EventEmitter_emit(_, _, _, _, _)
RECURSIVE send(_, _, _, _, _, _, _)
RECURSIVE call(_, _, _, _, _)

\* Variant of call in which one_time_handler runs the handler before off().
call_before_off(S, r, x, order, depth) ==
    LET S1 == [S EXCEPT !.calls = Append(@, <<r, x>>)]
        S2 == IF r.fn = "hr" /\ depth = 0
              THEN EventEmitter_emit(S1, x, ReemitEvent, order, 1)
              ELSE IF r.fn = "hon"
              THEN EventEmitter_on(S1, x, ReemitEvent, Fn("h"))
              ELSE IF r.fn = "hoff"
              THEN EventEmitter_off(S1, x, ReemitEvent, Fn("h"))
              ELSE S1
    IN IF r.kind = "once" THEN EventEmitter_off(S2, r.owner, r.ev, r) ELSE S2

\* The signal calls the receiver r with the sender x: one_time_handler first
\* takes itself off its emitter; then the body of the host function runs.
call(S, r, x, order, depth) ==
    LET S1 == IF r.kind = "once" THEN EventEmitter_off(S, r.owner, r.ev, r)
              ELSE S
        S2 == [S1 EXCEPT !.calls = Append(@, <<r, x>>)]
    IN IF r.fn = "hr" /\ depth = 0
       THEN EventEmitter_emit(S2, x, ReemitEvent, order, 1)
       ELSE IF r.fn = "hon" THEN EventEmitter_on(S2, x, ReemitEvent, Fn("h"))
       ELSE IF r.fn = "hoff" THEN EventEmitter_off(S2, x, ReemitEvent, Fn("h"))
       ELSE S2

\* Signal.send(sender): the receivers connected when it starts (list), each
\* called unless it has been disconnected by then.
send(S, n, list, k, x, order, depth) ==
    IF k > Len(list) THEN S
    ELSE send(IF list[k] \in S.recv[n]
              THEN call(S, list[k], x, order, depth)
              ELSE S,
              n, list, k + 1, x, order, depth)

\* EventEmitter.emit; order is the order in which the sets of receivers are
\* walked during this call.
EventEmitter_emit(S, x, n, order, depth) ==
    IF n \in S.sig[x]
    THEN send(S, n, SelectSeq(order, LAMBDA r : r \in S.recv[n]), 1, x,
              order, depth)
    ELSE S

\* EventEmitter.once: a new closure, registered with on().
EventEmitter_once(S, x, n, h, k) ==
    EventEmitter_on(S, x, n, one_time_handler(x, n, h, k))

\* Every receiver connected to some signal, and the orders a walk can take.
Connected == UNION {receivers[n] : n \in EventNames}
Orderings(R) ==
    {o \in [1..Cardinality(R) -> R] : \A i, j \in 1..Cardinality(R) :
                                         i # j => o[i] # o[j]}

\* The fields of the emitters after a call that ended in the record S.
EmitterCall(S, op, x, n, r) ==
    /\ CanStep
    /\ steps_left' = steps_left - 1
    /\ signals' = S.sig
    /\ event_handlers' = S.eh
    /\ receivers' = S.recv
    /\ calls' = S.calls
    /\ lastEv' = [op |-> op, emitter |-> x, event |-> n, handler |-> r]
    /\ UNCHANGED <<id, name, children, parent, is_mounted, lifecycle_state,
                   emitted, observed, lastOp, hung>>
    /\ UNCHANGED <<layoutVars, stateVars, propagationVars, singletonVars,
                   reactiveVars>>

\* The host calls x.on(n, h).
On(x, n, h) ==
    /\ EmitterCall(EventEmitter_on(EmitterState, x, n, Fn(h)), "on", x, n, Fn(h))
    /\ UNCHANGED once_made

\* The host calls x.once(n, h).
Once(x, n, h) ==
    /\ once_made < MaxOnce
    /\ once_made' = once_made + 1
    /\ EmitterCall(EventEmitter_once(EmitterState, x, n, h, once_made + 1),
                   "once", x, n, one_time_handler(x, n, h, once_made + 1))

\* The host calls x.off(n, h), or x.off(n) when r is NoHandler.
Off(x, n, r) ==
    /\ EmitterCall(EventEmitter_off(EmitterState, x, n, r), "off", x, n, r)
    /\ UNCHANGED once_made

\* The host calls x.emit(n).
Emit(x, n) ==
    /\ \E order \in Orderings(Connected) :
          EmitterCall(EventEmitter_emit(EmitterState, x, n, order, 0),
                      "emit", x, n, NoHandler)
    /\ UNCHANGED once_made

\* EventEmitter.__init__ for every emitter; no signal has a receiver.
NoEmitterCalls ==
    /\ signals = [x \in Emitter |-> {}]
    /\ event_handlers = [x \in Emitter |-> [n \in EventNames |-> <<>>]]
    /\ receivers = [n \in EventNames |-> {}]
    /\ calls = <<>>
    /\ lastEv = [op |-> "init", emitter |-> 0, event |-> "", handler |-> NoHandler]
    /\ once_made = 0

\* ------------------------------------------------------------------- state
\* State (state.py): a dictionary, the dictionary of the values its keys had
\* before their last change, and a STATE_CHANGE notification per change.  The
\* state container of a component is connected to the component's
\* _handle_state_change by Component.__init__.

\* Keys and values a host uses; None is a value like any other.
Keys == {"k1", "k2"}
Values == {None, 1}
\* A key the dictionary does not hold.
Absent == -3
\* Number of host calls explored from the initial states of SpecState.
MaxStateOps == 3

\* dict.get(key, default)
dict_get(d, key, default) == IF d[key] = Absent THEN default ELSE d[key]

\* The kwargs of the two notifications.
SingleChange(key, value, old_value) ==
    [names |-> {"key", "value", "old_value"},
     key |-> key, value |-> value, old_value |-> old_value,
     keys |-> <<>>, updates |-> <<>>]
BatchChange(keys, updates) ==
    [names |-> {"keys", "updates"},
     key |-> "", value |-> Absent, old_value |-> Absent,
     keys |-> keys, updates |-> updates]

\* The fields of the state container of c, and the notifications of a call.
StateOf(c) == [state |-> state[c], prev |-> previous_state[c], sent |-> <<>>]

\* Variant of State.set that notifies without comparing the values.
State_set_always_notifies(S, key, value) ==
    LET old_value == dict_get(S.state, key, None)
    IN [state |-> [S.state EXCEPT ![key] = value],
        prev |-> IF old_value # value THEN [S.prev EXCEPT ![key] = old_value]
                 ELSE S.prev,
        sent |-> Append(S.sent, SingleChange(key, value, old_value))]

\* Variant of State.set that records the old value before it compares.
State_set_always_records(S, key, value) ==
    LET old_value == dict_get(S.state, key, None)
    IN IF old_value # value
       THEN [state |-> [S.state EXCEPT ![key] = value],
             prev |-> [S.prev EXCEPT ![key] = old_value],
             sent |-> Append(S.sent, SingleChange(key, value, old_value))]
       ELSE [S EXCEPT !.prev[key] = old_value]

\* State.set
State_set(S, key, value) ==
    LET old_value == dict_get(S.state, key, None)
    IN IF old_value # value
       THEN [state |-> [S.state EXCEPT ![key] = value],
             prev |-> [S.prev EXCEPT ![key] = old_value],
             sent |-> Append(S.sent, SingleChange(key, value, old_value))]
       ELSE S

\* The loop of State.update over updates.items(): the dictionaries and the
\* list changed_keys after the items from k on.
RECURSIVE update_items(_, _, _, _)
update_items(S, updates, k, changed_keys) ==
    IF k > Len(updates) THEN [S |-> S, changed_keys |-> changed_keys]
    ELSE LET key == updates[k][1]
             value == updates[k][2]
             old_value == dict_get(S.state, key, None)
         IN IF old_value # value
            THEN update_items([S EXCEPT !.state[key] = value,
                                        !.prev[key] = old_value],
                              updates, k + 1, Append(changed_keys, key))
            ELSE update_items(S, updates, k + 1, changed_keys)

\* Variant of State.update that passes on the changed items only.
State_update_changed_items_only(S, updates) ==
    LET r == update_items(S, updates, 1, <<>>)
    IN IF r.changed_keys # <<>>
       THEN [r.S EXCEPT !.sent =
               Append(@, BatchChange(r.changed_keys,
                         SelectSeq(updates,
                                   LAMBDA it : InSeq(it[1], r.changed_keys))))]
       ELSE r.S

\* State.update
State_update(S, updates) ==
    LET r == update_items(S, updates, 1, <<>>)
    IN IF r.changed_keys # <<>>
       THEN [r.S EXCEPT !.sent = Append(@, BatchChange(r.changed_keys, updates))]
       ELSE r.S

\* State.get and State.get_previous
State_get(c, key, default) == dict_get(state[c], key, default)
get_previous(c, key, default) == dict_get(previous_state[c], key, default)

\* Component._handle_state_change
handle_state_change(ws, ch, c, fuel) ==
    IF ws.err THEN ws
    ELSE IF ws.m[c] THEN self_update(ws, ch, c, fuel) ELSE ws

\* The send of the signal "state_change": every component's
\* _handle_state_change is connected to it, and the walk takes them in the
\* order of the receiver set.
RECURSIVE state_change_send(_, _, _, _, _)
state_change_send(ws, ch, order, k, fuel) ==
    IF ws.err \/ k > Len(order) THEN ws
    ELSE state_change_send(handle_state_change(ws, ch, order[k], fuel),
                           ch, order, k + 1, fuel)

\* The dictionaries a host passes to update, as their items in order.
Mappings ==
    {<<>>}
    \cup {<<<<k, v>>>> : k \in Keys, v \in Values}
    \cup {u \in (Keys \X Values) \X (Keys \X Values) : u[1][1] # u[2][1]}

\* The fields of the state containers and of the components after a call on
\* the state of c that ended in the record S.
StateCall(S, op, c, arg) ==
    /\ CanStep
    /\ steps_left' = steps_left - 1
    /\ state' = [state EXCEPT ![c] = S.state]
    /\ previous_state' = [previous_state EXCEPT ![c] = S.prev]
    /\ notified' = S.sent
    /\ \E order \in IF S.sent # <<>> THEN Orderings(Comp) ELSE {<<>>} :
          LET ws == state_change_send(World, children, order, 1, Fuel)
          IN /\ is_mounted' = ws.m
             /\ lifecycle_state' = ws.ls
             /\ emitted' = ws.log
             /\ observed' = ws.seen
             /\ position' = ws.pos
             /\ size' = ws.size
             /\ is_visible' = ws.vis
             /\ layout_direction' = ws.dir
             /\ layout_spacing' = ws.spacing
             /\ lastOp' = [op |-> op, self |-> c, arg |-> arg,
                           result |-> IF ws.err THEN "recursion_error" ELSE "ok"]
    /\ UNCHANGED <<id, name, children, parent, hung, is_container, eventVars>>
    /\ UNCHANGED <<propagationVars, singletonVars, reactiveVars>>

\* The host calls c.state.set(key, value).
StateSet(c, key, value) ==
    /\ key \in Keys
    /\ StateCall(State_set(StateOf(c), key, value), "state_set", c, <<key, value>>)

\* The host calls c.state.update(updates).
StateUpdate(c, updates) ==
    /\ updates \in Mappings
    /\ StateCall(State_update(StateOf(c), updates), "state_update", c, updates)

\* State.__init__ for the state container of every component.
NoStateCalls ==
    /\ state = [c \in Comp |-> [k \in Keys |-> Absent]]
    /\ previous_state = [c \in Comp |-> [k \in Keys |-> Absent]]
    /\ notified = <<>>

\* ------------------------------------------------------------- propagation
\* handle_event of Component and Container, on a record of what a call does:
\*   offers  the components whose handle_event has been called, in order
\*   log  the emit() calls     handled  the value returned     err  RecursionError

Propagation ==
    [offers |-> <<>>, log |-> <<>>, seen |-> <<>>, handled |-> FALSE, err |-> FALSE]

\* reversed(list)
reversed(list) == [i \in 1..Len(list) |-> list[Len(list) + 1 - i]]

RECURSIVE handle_event(_, _, _, _)
RECURSIVE Container_handle_event(_, _, _, _)
RECURSIVE propagate(_, _, _, _, _)

\* Component.handle_event: emits the event on the component and returns False.
Component_handle_event(H, c) ==
    [H EXCEPT !.log = Append(@, <<c, EvINPUT>>),
              !.seen = Append(@, <<is_mounted[c], lifecycle_state[c]>>),
              !.handled = FALSE]

\* c.handle_event(event): a subclass that handles the event returns True
\* without calling the method it overrides; any other instance runs
\* Container.handle_event or Component.handle_event.
handle_event(H, ch, c, fuel) ==
    IF H.err THEN H
    ELSE IF fuel = 0 THEN [H EXCEPT !.err = TRUE]
    ELSE LET H1 == [H EXCEPT !.offers = Append(@, c)]
         IN IF handles[c] THEN [H1 EXCEPT !.handled = TRUE]
            ELSE IF is_container[c] THEN Container_handle_event(H1, ch, c, fuel - 1)
            ELSE Component_handle_event(H1, c)

\* Container.handle_event: the container itself first (super().handle_event
\* never reports handling), then the children, last one first.
Container_handle_event(H, ch, c, fuel) ==
    LET H1 == Component_handle_event(H, c)
    IN IF H1.handled THEN H1
       ELSE propagate(H1, ch, reversed(ch[c]), 1, fuel)

\* The loop of Container.handle_event over reversed(self._children).
propagate(H, ch, list, k, fuel) ==
    IF H.err THEN H
    ELSE IF k > Len(list) THEN [H EXCEPT !.handled = FALSE]
    ELSE IF ~is_visible[list[k]] THEN propagate(H, ch, list, k + 1, fuel)
    ELSE LET H1 == handle_event(H, ch, list[k], fuel)
         IN IF H1.err \/ H1.handled THEN H1
            ELSE propagate(H1, ch, list, k + 1, fuel)

\* The host calls c.handle_event(EvINPUT).
HandleEvent(c) ==
    /\ CanStep
    /\ steps_left' = steps_left - 1
    /\ LET H == handle_event(Propagation, children, c, Fuel)
       IN /\ offered' = H.offers
          /\ emitted' = H.log
          /\ observed' = H.seen
          /\ lastOp' = [op |-> "handle_event", self |-> c, arg |-> None,
                        result |-> IF H.err THEN "recursion_error"
                                   ELSE IF H.handled THEN "true" ELSE "false"]
    /\ UNCHANGED <<id, name, children, parent, is_mounted, lifecycle_state, hung,
                   handles>>
    /\ UNCHANGED <<eventVars, layoutVars, stateVars, singletonVars, reactiveVars>>

\* -------------------------------------------------------------- singletons
\* StateManager (state.py) and EventBus (events.py): __new__ keeps the one
\* instance in the class attribute _instance, __init__ runs on every
\* acquisition and decides from a flag whether to set the fields up.

\* Names a host gives to state containers.
StateNames == {"a", "b"}
\* The one StateManager, and the emitter that is the one EventBus.
TheManager == 1
Bus == 1
\* No State object under a name.
NoState == 0
\* Number of host calls explored from the initial state of SpecSingleton.
MaxSingletonOps == 4

\* The singletons as the record their methods work on:
\*   made  _instance is not None     states  _states
\*   count  State objects constructed so far
ManagerState == [made |-> manager_made, states |-> states, count |-> states_made]

\* StateManager.__new__: the instance is made on the first acquisition.
StateManager_new(M) == [M EXCEPT !.made = TRUE]

\* StateManager.__init__: __new__ stores the flag as _StateManager__initialized
\* (the name is mangled inside the class body) while hasattr looks for the
\* literal "__initialized", which no instance has: the test is always true
\* and every acquisition sets _states to an empty dictionary.
StateManager_init(M, first) ==
    [M EXCEPT !.states = [n \in StateNames |-> NoState]]

\* StateManager(): __new__, then __init__.
StateManager_acquire(M) == StateManager_init(StateManager_new(M), ~M.made)

\* StateManager.create_state: the registry after the call and what it
\* returns (a new State object) or raises.
create_state(M, n) ==
    IF M.states[n] # NoState
    THEN [M |-> M, returned |-> NoState, result |-> "value_error"]
    ELSE [M |-> [M EXCEPT !.states[n] = M.count + 1, !.count = M.count + 1],
          returned |-> M.count + 1, result |-> "ok"]

\* StateManager.get_state
get_state(M, n) ==
    IF M.states[n] = NoState
    THEN [M |-> M, returned |-> NoState, result |-> "key_error"]
    ELSE [M |-> M, returned |-> M.states[n], result |-> "ok"]

\* The fields of the singletons after a call on the StateManager.
ManagerCall(r, op, n) ==
    /\ CanStep
    /\ steps_left' = steps_left - 1
    /\ manager_made' = r.M.made
    /\ states' = r.M.states
    /\ states_made' = r.M.count
    /\ lastReg' = [op |-> op, name |-> n, returned |-> r.returned,
                   result |-> r.result]
    /\ UNCHANGED <<id, name, children, parent, is_mounted, lifecycle_state,
                   emitted, observed, lastOp, hung, bus_made>>
    /\ UNCHANGED <<eventVars, layoutVars, stateVars, propagationVars, reactiveVars>>

\* The host calls StateManager().
AcquireManager ==
    /\ CanStep
    /\ ManagerCall([M |-> StateManager_acquire(ManagerState),
                    returned |-> TheManager, result |-> "ok"],
                   "StateManager", "")

\* The host calls create_state(n) on a reference to the StateManager.
CreateState(n) ==
    /\ manager_made
    /\ ManagerCall(create_state(ManagerState, n), "create_state", n)

\* The host calls get_state(n) on a reference to the StateManager.
GetState(n) ==
    /\ manager_made
    /\ ManagerCall(get_state(ManagerState, n), "get_state", n)

\* The host calls EventBus(): __new__ makes the instance on the first
\* acquisition, and __init__ runs EventEmitter.__init__ only while the flag
\* _initialized is false, that is on the first acquisition.
AcquireBus ==
    /\ CanStep
    /\ steps_left' = steps_left - 1
    /\ bus_made' = TRUE
    /\ signals' = IF bus_made THEN signals ELSE [signals EXCEPT ![Bus] = {}]
    /\ event_handlers' =
          IF bus_made THEN event_handlers
          ELSE [event_handlers EXCEPT ![Bus] = [n \in EventNames |-> <<>>]]
    /\ lastReg' = [op |-> "EventBus", name |-> "", returned |-> Bus, result |-> "ok"]
    /\ UNCHANGED <<id, name, children, parent, is_mounted, lifecycle_state,
                   emitted, observed, lastOp, hung>>
    /\ UNCHANGED <<receivers, calls, lastEv, once_made>>
    /\ UNCHANGED <<manager_made, states, states_made>>
    /\ UNCHANGED <<layoutVars, stateVars, propagationVars, reactiveVars>>

\* The host calls on and emit through a reference to the bus it acquired.
BusOn(n, h) ==
    /\ bus_made
    /\ On(Bus, n, h)

BusEmit(n) ==
    /\ bus_made
    /\ Emit(Bus, n)

\* No singleton has been acquired yet.
NoSingletons ==
    /\ manager_made = FALSE
    /\ states = [n \in StateNames |-> NoState]
    /\ states_made = 0
    /\ bus_made = FALSE
    /\ lastReg = [op |-> "init", name |-> "", returned |-> 0, result |-> "ok"]

\* No handle_event call yet; every instance is of a class that keeps the
\* handle_event of Component or Container.
NoPropagation ==
    /\ handles = [c \in Comp |-> FALSE]
    /\ offered = <<>>

\* ---------------------------------------------------------- reactive handlers
\* A handler registered on a component's UPDATE or RENDER event that calls
\* self.state.set: State.set emits STATE_CHANGE, _handle_state_change calls
\* update(), update() emits UPDATE and RENDER, and the emit runs the handler
\* again, inside the first set call.  The methods work on a record with the
\* fields of the components, of their state containers, and
\*   depth  the update() calls that have not returned
\*   deepest  the largest value depth has had.

\* The key a handler writes and the value a handler of the fixed kind writes.
HandlerKey == "k1"
FixedValue == 1
\* Number of host calls explored from the initial states of SpecConverge.
MaxReactiveOps == 3

\* The value the handler of component e passes to state.set.
written(rs, e) ==
    IF handler_of[e].writes = "fixed" THEN FixedValue
    ELSE IF dict_get(rs.state[e], HandlerKey, None) = FixedValue THEN None
    ELSE FixedValue

Reactive ==
    [m |-> is_mounted, ls |-> lifecycle_state, log |-> <<>>, seen |-> <<>>,
     err |-> FALSE, state |-> state, prev |-> previous_state, sent |-> <<>>,
     depth |-> 0, deepest |-> 0]

RECURSIVE reactive_set(_, _, _, _, _, _, _)
RECURSIVE reactive_state_change(_, _, _, _, _)
RECURSIVE reactive_update(_, _, _, _, _)
RECURSIVE reactive_emit(_, _, _, _, _, _)
RECURSIVE reactive_send(_, _, _, _, _, _)

\* State.set on the state container of c, with everything the emit of
\* STATE_CHANGE runs before set returns.  o1 is the order of the receivers of
\* the signal "state_change", o2 that of the handlers; the call raises
\* RecursionError when the calls are nested deeper than fuel.
reactive_set(rs, c, key, value, o1, o2, fuel) ==
    IF rs.err THEN rs
    ELSE IF fuel = 0 THEN Raise(rs)
    ELSE LET old_value == dict_get(rs.state[c], key, None)
         IN IF old_value # value
            THEN reactive_state_change(
                    [rs EXCEPT !.state[c][key] = value,
                               !.prev[c][key] = old_value,
                               !.sent = Append(@, SingleChange(key, value,
                                                               old_value))],
                    o1, o2, 1, fuel - 1)
            ELSE rs

\* The send of the signal "state_change": every component's
\* _handle_state_change is connected to it.
reactive_state_change(rs, o1, o2, k, fuel) ==
    IF rs.err \/ k > Len(o1) THEN rs
    ELSE reactive_state_change(
            IF rs.m[o1[k]] THEN reactive_update(rs, o1[k], o1, o2, fuel) ELSE rs,
            o1, o2, k + 1, fuel)

\* Component.update, with the handlers its two emits run.
reactive_update(rs, c, o1, o2, fuel) ==
    IF ~rs.m[c] THEN rs
    ELSE LET r0 == [rs EXCEPT !.ls[c] = UPDATED,
                              !.depth = @ + 1,
                              !.deepest = IF rs.depth + 1 > @ THEN rs.depth + 1
                                          ELSE @]
             r1 == reactive_emit(r0, c, EvUPDATE, o1, o2, fuel)
             r2 == reactive_emit(r1, c, EvRENDER, o1, o2, fuel)
         IN IF r2.err THEN r2 ELSE [r2 EXCEPT !.depth = @ - 1]

\* EventEmitter.emit on a component: the signal is sent when the component has
\* registered a handler for the event, and the signal of that name runs the
\* handlers every component has registered for it.
reactive_emit(rs, c, ev, o1, o2, fuel) ==
    IF rs.err THEN rs
    ELSE IF handler_of[c].event = ev
         THEN reactive_send(emit(rs, c, ev), ev, o1, o2, 1, fuel)
         ELSE emit(rs, c, ev)

reactive_send(rs, ev, o1, o2, k, fuel) ==
    IF rs.err \/ k > Len(o2) THEN rs
    ELSE reactive_send(
            IF handler_of[o2[k]].event = ev
            THEN reactive_set(rs, o2[k], HandlerKey, written(rs, o2[k]),
                              o1, o2, fuel)
            ELSE rs,
            ev, o1, o2, k + 1, fuel)

\* The host calls c.on(ev, handler) with a handler that writes to c's state.
RegisterHandler(c, ev, kind) ==
    /\ CanStep
    /\ steps_left' = steps_left - 1
    /\ handler_of[c] = NoWriter
    /\ handler_of' = [handler_of EXCEPT ![c] = [event |-> ev, writes |-> kind]]
    /\ lastOp' = [op |-> "on", self |-> c, arg |-> <<ev, kind>>, result |-> "ok"]
    /\ emitted' = <<>>
    /\ observed' = <<>>
    /\ notified' = <<>>
    /\ nesting' = 0
    /\ UNCHANGED <<id, name, children, parent, is_mounted, lifecycle_state, hung,
                   state, previous_state>>
    /\ UNCHANGED <<eventVars, layoutVars, propagationVars, singletonVars>>

\* The receivers of the signal "state_change" that do something, which are the
\* _handle_state_change of the mounted components, and the components whose
\* handler is connected to the signal of its event.  A send walks a set of
\* receivers, in any order.
Updating == {c \in Comp : is_mounted[c]}
Writing == {c \in Comp : handler_of[c] # NoWriter}

\* The host calls c.state.set(key, value) in a program with such handlers.
ReactiveSet(c, key, value) ==
    /\ CanStep
    /\ steps_left' = steps_left - 1
    /\ \E o1 \in Orderings(Updating), o2 \in Orderings(Writing) :
          LET rs == reactive_set(Reactive, c, key, value, o1, o2, Fuel)
          IN /\ state' = rs.state
             /\ previous_state' = rs.prev
             /\ notified' = rs.sent
             /\ is_mounted' = rs.m
             /\ lifecycle_state' = rs.ls
             /\ emitted' = rs.log
             /\ observed' = rs.seen
             /\ nesting' = rs.deepest
             /\ lastOp' = [op |-> "state_set", self |-> c, arg |-> <<key, value>>,
                           result |-> IF rs.err THEN "recursion_error" ELSE "ok"]
    /\ UNCHANGED <<id, name, children, parent, hung, handler_of>>
    /\ UNCHANGED <<eventVars, layoutVars, propagationVars, singletonVars>>

\* No handler of this kind has been registered.
NoReactive ==
    /\ handler_of = [c \in Comp |-> NoWriter]
    /\ nesting = 0

\* ------------------------------------------------------------ specification

\* Component.__init__ for every instance of the pool.
Constructed ==
    /\ children = [c \in Comp |-> <<>>]
    /\ parent = [c \in Comp |-> None]
    /\ is_mounted = [c \in Comp |-> FALSE]
    /\ lifecycle_state = [c \in Comp |-> CREATED]
    /\ emitted = <<>>
    /\ observed = <<>>
    /\ lastOp = [op |-> "init", self |-> None, arg |-> None, result |-> "ok"]
    /\ hung = FALSE

\* Constructor arguments, in a fixed order.
IdSeq == <<NoValue>> \o SetToSeq(IdValues)
NameSeq == <<NoValue>> \o SetToSeq(NameValues)

\* The instances are interchangeable, so the pool is numbered in the order of
\* its constructor arguments (id, name): every multiset of arguments occurs once.
Init ==
    /\ \E i \in [Comp -> 1..Len(IdSeq)], n \in [Comp -> 1..Len(NameSeq)] :
          /\ \A c \in Comp, d \in Comp :
                c < d => i[c] * Len(NameSeq) + n[c] <= i[d] * Len(NameSeq) + n[d]
          /\ id = [c \in Comp |-> IdSeq[i[c]]]
          /\ name = [c \in Comp |-> NameSeq[n[c]]]
    /\ Constructed
    /\ NoEmitterCalls
    /\ NoStateCalls
    /\ NoPropagation
    /\ NoSingletons
    /\ NoReactive
    /\ DefaultGeometry
    /\ steps_left = MaxOps

InitLifecycle ==
    /\ id = [c \in Comp |-> NoValue]
    /\ name = [c \in Comp |-> NoValue]
    /\ Constructed
    /\ NoEmitterCalls
    /\ NoStateCalls
    /\ NoPropagation
    /\ NoSingletons
    /\ NoReactive
    /\ DefaultGeometry
    /\ steps_left = MaxLifecycleOps

Next ==
    \/ \E p \in Comp, c \in Comp : AddChild(p, c)
    \/ \E p \in Comp, c \in Comp : RemoveChild(p, c)
    \/ \E c \in Comp : Mount(c)
    \/ \E c \in Comp : Unmount(c)
    \/ \E c \in Comp : Update(c)

\* Trees with ids and names, a few calls deep.
Spec == Init /\ [][Next]_vars

\* Trees without ids and names, more calls deep.
SpecLifecycle == InitLifecycle /\ [][Next]_vars

\* Emitters only: no component is touched.
InitEvents ==
    /\ id = [c \in Comp |-> NoValue]
    /\ name = [c \in Comp |-> NoValue]
    /\ Constructed
    /\ NoEmitterCalls
    /\ NoStateCalls
    /\ NoPropagation
    /\ NoSingletons
    /\ NoReactive
    /\ DefaultGeometry
    /\ steps_left = MaxEventOps

NextEvents ==
    \/ \E x \in Emitter, n \in EventNames, h \in HandlerFns : On(x, n, h)
    \/ \E x \in Emitter, n \in EventNames, h \in HandlerFns : Once(x, n, h)
    \/ \E x \in Emitter, n \in EventNames, h \in HandlerFns : Off(x, n, Fn(h))
    \/ \E x \in Emitter, n \in EventNames : Off(x, n, NoHandler)
    \/ \E x \in Emitter, n \in EventNames : Emit(x, n)

SpecEvents == InitEvents /\ [][NextEvents]_vars

\* Emitters with handlers that register and remove handlers while an emit is
\* under way.
NextReentrant ==
    \/ \E x \in Emitter, n \in EventNames, h \in ReentrantFns : On(x, n, h)
    \/ \E x \in Emitter, n \in EventNames, h \in ReentrantFns : Off(x, n, Fn(h))
    \/ \E x \in Emitter, n \in EventNames : Emit(x, n)

SpecReentrant == InitEvents /\ [][NextReentrant]_vars

\* The trees SpecLayout starts from: component 1 with all the others as its
\* children, or a chain from component 1 down.
Star == [c \in Comp |-> IF c = 1 THEN [k \in 1..(NComp - 1) |-> k + 1] ELSE <<>>]
Chain == [c \in Comp |-> IF c < NComp THEN <<c + 1>> ELSE <<>>]

\* A container (component 1) that the host has given a position, a size, an
\* axis and a spacing, then children, some of them hidden, some of them
\* containers themselves; the host has mounted the tree or not.
InitLayout ==
    /\ id = [c \in Comp |-> NoValue]
    /\ name = [c \in Comp |-> NoValue]
    /\ children \in {Star, Chain}
    /\ parent = [c \in Comp |->
                   IF \E p \in Comp : InSeq(c, children[p])
                   THEN CHOOSE p \in Comp : InSeq(c, children[p])
                   ELSE None]
    /\ \E mounted \in BOOLEAN :
          /\ is_mounted = [c \in Comp |-> mounted]
          /\ lifecycle_state = [c \in Comp |-> IF mounted THEN MOUNTED ELSE CREATED]
    /\ emitted = <<>>
    /\ observed = <<>>
    /\ lastOp = [op |-> "init", self |-> None, arg |-> None, result |-> "ok"]
    /\ hung = FALSE
    /\ NoEmitterCalls
    /\ NoStateCalls
    /\ NoPropagation
    /\ NoSingletons
    /\ NoReactive
    /\ \E k \in 1..(NComp - 1) : is_container = [c \in Comp |-> c <= k]
    /\ is_visible \in [Comp -> BOOLEAN]
    /\ is_visible[1]
    /\ position = [c \in Comp |-> IF c = 1 THEN Origin ELSE <<0, 0>>]
    /\ layout_direction \in [Comp -> {VERTICAL, HORIZONTAL}]
    /\ \A c \in Comp : c # 1 => layout_direction[c] = VERTICAL
    /\ \E E \in 0..MaxExtent :
          size = [c \in Comp |->
                    IF c # 1 THEN <<0, 0>>
                    ELSE IF layout_direction[1] = VERTICAL THEN <<E, CrossExtent>>
                    ELSE <<CrossExtent, E>>]
    /\ layout_spacing \in [Comp -> 0..MaxSpacing]
    /\ \A c \in Comp : c # 1 => layout_spacing[c] = 0
    /\ steps_left = MaxLayoutOps

NextLayout ==
    \/ \E c \in Comp : CalculateLayout(c)
    \/ \E c \in Comp, v \in BOOLEAN : SetVisible(c, v)
    \/ \E p \in Comp, c \in Comp : AddChild(p, c)

SpecLayout == InitLayout /\ [][NextLayout]_vars

\* Components a host has constructed and mounted or not, one by one.  The
\* instances are interchangeable, so the mounted ones come first.
InitState ==
    /\ id = [c \in Comp |-> NoValue]
    /\ name = [c \in Comp |-> NoValue]
    /\ children = [c \in Comp |-> <<>>]
    /\ parent = [c \in Comp |-> None]
    /\ \E j \in 0..NComp :
          /\ is_mounted = [c \in Comp |-> c <= j]
          /\ lifecycle_state = [c \in Comp |-> IF c <= j THEN MOUNTED ELSE CREATED]
    /\ emitted = <<>>
    /\ observed = <<>>
    /\ lastOp = [op |-> "init", self |-> None, arg |-> None, result |-> "ok"]
    /\ hung = FALSE
    /\ NoEmitterCalls
    /\ NoStateCalls
    /\ NoPropagation
    /\ NoSingletons
    /\ NoReactive
    /\ DefaultGeometry
    /\ steps_left = MaxStateOps

NextState ==
    \/ \E c \in Comp, k \in Keys, v \in Values : StateSet(c, k, v)
    \/ \E c \in Comp, u \in Mappings : StateUpdate(c, u)

SpecState == InitState /\ [][NextState]_vars

\* The singletons only: acquisitions, the registry of named states and
\* handlers on the bus.
InitSingleton ==
    /\ id = [c \in Comp |-> NoValue]
    /\ name = [c \in Comp |-> NoValue]
    /\ Constructed
    /\ NoEmitterCalls
    /\ NoStateCalls
    /\ NoPropagation
    /\ NoSingletons
    /\ NoReactive
    /\ DefaultGeometry
    /\ steps_left = MaxSingletonOps

NextSingleton ==
    \/ AcquireManager
    \/ \E n \in StateNames : CreateState(n)
    \/ \E n \in StateNames : GetState(n)
    \/ AcquireBus
    \/ \E n \in EventNames, h \in HandlerFns : BusOn(n, h)
    \/ \E n \in EventNames : BusEmit(n)

SpecSingleton == InitSingleton /\ [][NextSingleton]_vars

\* Trees of components and containers, some hidden, some of a subclass that
\* handles the input event, on which the host calls render and handle_event.
InitPropagate ==
    /\ id = [c \in Comp |-> NoValue]
    /\ name = [c \in Comp |-> NoValue]
    /\ children \in {Star, Chain}
    /\ parent = [c \in Comp |->
                   IF \E p \in Comp : InSeq(c, children[p])
                   THEN CHOOSE p \in Comp : InSeq(c, children[p])
                   ELSE None]
    /\ is_mounted = [c \in Comp |-> FALSE]
    /\ lifecycle_state = [c \in Comp |-> CREATED]
    /\ emitted = <<>>
    /\ observed = <<>>
    /\ lastOp = [op |-> "init", self |-> None, arg |-> None, result |-> "ok"]
    /\ hung = FALSE
    /\ NoEmitterCalls
    /\ NoStateCalls
    /\ NoSingletons
    /\ NoReactive
    /\ handles \in [Comp -> BOOLEAN]
    /\ offered = <<>>
    /\ is_container \in [Comp -> BOOLEAN]
    /\ is_container[1]
    /\ is_visible \in [Comp -> BOOLEAN]
    /\ position = [c \in Comp |-> <<0, 0>>]
    /\ size = [c \in Comp |-> <<0, 0>>]
    /\ layout_direction = [c \in Comp |-> VERTICAL]
    /\ layout_spacing = [c \in Comp |-> 0]
    /\ steps_left = MaxLayoutOps

NextPropagate ==
    \/ \E c \in Comp : HandleEvent(c)
    \/ \E c \in Comp : Render(c)
    \/ \E p \in Comp, c \in Comp : AddChild(p, c)

SpecPropagate == InitPropagate /\ [][NextPropagate]_vars

\* A container (component 1) with a position, a size, an axis and a spacing,
\* and its children, some of them containers; the host has mounted the tree
\* or not, and goes on to assign geometry, visibility, axis and spacing.
InitSetters ==
    /\ id = [c \in Comp |-> NoValue]
    /\ name = [c \in Comp |-> NoValue]
    /\ children \in {Star, Chain}
    /\ parent = [c \in Comp |->
                   IF \E p \in Comp : InSeq(c, children[p])
                   THEN CHOOSE p \in Comp : InSeq(c, children[p])
                   ELSE None]
    /\ \E mounted \in BOOLEAN :
          /\ is_mounted = [c \in Comp |-> mounted]
          /\ lifecycle_state = [c \in Comp |-> IF mounted THEN MOUNTED ELSE CREATED]
    /\ emitted = <<>>
    /\ observed = <<>>
    /\ lastOp = [op |-> "init", self |-> None, arg |-> None, result |-> "ok"]
    /\ hung = FALSE
    /\ NoEmitterCalls
    /\ NoStateCalls
    /\ NoPropagation
    /\ NoSingletons
    /\ NoReactive
    /\ is_container \in [Comp -> BOOLEAN]
    /\ is_container[1]
    /\ is_visible = [c \in Comp |-> TRUE]
    /\ position = [c \in Comp |-> IF c = 1 THEN Origin ELSE <<0, 0>>]
    /\ \E d \in {VERTICAL, HORIZONTAL} :
          /\ layout_direction = [c \in Comp |-> IF c = 1 THEN d ELSE VERTICAL]
          /\ size = [c \in Comp |->
                       IF c # 1 THEN <<0, 0>>
                       ELSE IF d = VERTICAL THEN <<MaxExtent, CrossExtent>>
                       ELSE <<CrossExtent, MaxExtent>>]
    /\ \E s \in {0, MaxSpacing} :
          layout_spacing = [c \in Comp |-> IF c = 1 THEN s ELSE 0]
    /\ steps_left = MaxLayoutOps

NextSetters ==
    \/ \E c \in Comp : ContainerUpdate(c)
    \/ \E c \in Comp, v \in Positions : SetPosition(c, v)
    \/ \E c \in Comp, v \in Sizes : SetSize(c, v)
    \/ \E c \in Comp, v \in BOOLEAN : SetVisible(c, v)
    \/ \E c \in Comp, d \in Directions : SetLayoutDirection(c, d)
    \/ \E c \in Comp, s \in Spacings : SetLayoutSpacing(c, s)
    \/ \E p \in Comp, c \in Comp : AddChild(p, c)

SpecSetters == InitSetters /\ [][NextSetters]_vars

\* The same trees, on which the host changes the state of components, hides
\* and shows them, and adds and removes children.
NextReactive ==
    \/ \E c \in Comp, k \in Keys, v \in Values : StateSet(c, k, v)
    \/ \E c \in Comp : ContainerUpdate(c)
    \/ \E c \in Comp, v \in BOOLEAN : SetVisible(c, v)
    \/ \E p \in Comp, c \in Comp : AddChild(p, c)
    \/ \E p \in Comp, c \in Comp : RemoveChild(p, c)

SpecReactive == InitSetters /\ [][NextReactive]_vars

\* Plain components a host has constructed and mounted or not, the handlers it
\* registers on them and its calls of state.set.
InitConverge ==
    /\ id = [c \in Comp |-> NoValue]
    /\ name = [c \in Comp |-> NoValue]
    /\ children = [c \in Comp |-> <<>>]
    /\ parent = [c \in Comp |-> None]
    /\ \E j \in 0..NComp :
          /\ is_mounted = [c \in Comp |-> c <= j]
          /\ lifecycle_state = [c \in Comp |-> IF c <= j THEN MOUNTED ELSE CREATED]
    /\ emitted = <<>>
    /\ observed = <<>>
    /\ lastOp = [op |-> "init", self |-> None, arg |-> None, result |-> "ok"]
    /\ hung = FALSE
    /\ NoEmitterCalls
    /\ NoStateCalls
    /\ NoPropagation
    /\ NoSingletons
    /\ NoReactive
    /\ DefaultGeometry
    /\ steps_left = MaxReactiveOps

NextConverge ==
    \/ \E c \in Comp, ev \in HandlerEvents, kind \in HandlerKinds : RegisterHandler(c, ev, kind)
    \/ \E c \in Comp, k \in Keys, v \in Values : ReactiveSet(c, k, v)

SpecConverge == InitConverge /\ [][NextConverge]_vars

\* ------------------------------------------------------- notions of the claims

Kids(ch, c) == {ch[c][k] : k \in 1..Len(ch[c])}

\* The components reachable from the set S through the children lists.
RECURSIVE ReachFrom(_, _, _)
ReachFrom(ch, S, n) ==
    IF n = 0 THEN S
    ELSE ReachFrom(ch, S \cup UNION {Kids(ch, c) : c \in S}, n - 1)

\* The subtree rooted at c: c and everything below it.
Subtree(ch, c) == ReachFrom(ch, {c}, NComp)

\* The proper descendants of c.
Below(ch, c) == ReachFrom(ch, Kids(ch, c), NComp)

\* The tree that contains p: the subtree of the component that ends p's chain
\* of parent references (empty when the chain does not end).
TreeOf(ch, par, p) ==
    IF root(par, p) = Hang THEN {} ELSE Subtree(ch, root(par, p))

\* The children lists or the parent references run in a circle.
ChildCycle(ch) == \E c \in Comp : c \in Below(ch, c)
ParentCycle(par) == \E c \in Comp : root(par, c) = Hang

\* The last host call was p.add_child(c) / any call of the named method.
Did(op) == lastOp.op = op

\* ------------------------------------------------------------------- claims

\* C1: after any sequence of add_child and remove_child calls, no two distinct
\* nodes reachable from the same root through the children lists share the
\* same non-None id.
C1_UniqueIds ==
    \A r \in Comp :
        parent[r] = None =>
            \A a \in Subtree(children, r), b \in Subtree(children, r) :
                (a # b /\ id[a] # NoValue) => id[a] # id[b]

\* C2: the parent/child relation is a tree: c is in p's children list if and
\* only if c.parent is p, every component is in the children list of at most one
\* parent, and no component is its own ancestor.
C2_IsTree ==
    /\ \A p \in Comp, c \in Comp : (c \in Kids(children, p)) <=> (parent[c] = p)
    /\ \A c \in Comp : Cardinality({p \in Comp : c \in Kids(children, p)}) <= 1
    /\ ~ChildCycle(children)
    /\ ~ParentCycle(parent)

\* C3: an add_child rejected with a duplicate-name or duplicate-id error leaves
\* the children lists, the parent references and the mounted flag and lifecycle
\* state of every node exactly as before the call, and emits nothing.
C3_RejectedAddChildChangesNothing ==
    [][ (lastOp'.op = "add_child" /\ lastOp'.result \in {"dup_name", "dup_id"})
        => /\ children' = children
           /\ parent' = parent
           /\ is_mounted' = is_mounted
           /\ lifecycle_state' = lifecycle_state
           /\ emitted' = <<>> ]_vars

\* C3 witness: a rejection by a mounted parent that already has children.
C3_Witness ==
    /\ Did("add_child")
    /\ lastOp.result \in {"dup_name", "dup_id"}
    /\ is_mounted[lastOp.self]
    /\ children[lastOp.self] # <<>>
    /\ ~is_mounted[lastOp.arg]

\* Some id of the subtree rooted at c is the id of a node of the tree that
\* contains p.
IdCollision(ch, par, p, c) ==
    \E a \in Subtree(ch, c), b \in TreeOf(ch, par, p) :
        id[a] # NoValue /\ id[a] = id[b]

\* A child of p other than c has c's name.
NameClash(ch, p, c) ==
    name[c] # NoValue /\ \E e \in Kids(ch, p) \ {c} : name[e] = name[c]

\* The walks of p.add_child(c) meet a cycle.
WalksACycle(ch, par, p, c) ==
    \/ root(par, p) = Hang
    \/ \E n \in Subtree(ch, c) \cup TreeOf(ch, par, p) : n \in Below(ch, n)

\* The parent/child relation is a tree (the statement of C2).
IsTree(ch, par) ==
    /\ \A p \in Comp, c \in Comp : (c \in Kids(ch, p)) <=> (par[c] = p)
    /\ ~ChildCycle(ch)
    /\ ~ParentCycle(par)

\* C4 as claimed, on well-formed trees: p.add_child(c) fails with the
\* duplicate-id error exactly when an id of c's subtree is in the tree of p.
C4_DupIdExactlyOnCollision ==
    [][ (lastOp'.op = "add_child" /\ IsTree(children, parent))
        => (IdCollision(children, parent, lastOp'.self, lastOp'.arg)
              <=> lastOp'.result = "dup_id") ]_vars

\* C4 as amended: a child already in the list is a no-op and a name clash is
\* reported first; otherwise the call fails with the duplicate-id error when an
\* id of c's subtree is in the tree of p and passes the id check when none is,
\* and only on a cycle can it end in RecursionError or not return instead; a
\* colliding child is never inserted.
C4_DupIdAmended ==
    [][ lastOp'.op = "add_child" =>
        LET p == lastOp'.self
            c == lastOp'.arg
            res == lastOp'.result
            coll == IdCollision(children, parent, p, c)
        IN /\ (c \in Kids(children, p)) <=> (res = "noop")
           /\ (c \notin Kids(children, p) /\ NameClash(children, p, c))
                 => res = "dup_name"
           /\ (c \notin Kids(children, p) /\ ~NameClash(children, p, c))
                 => /\ res \in {"ok", "dup_id", "recursion_error", "hang"}
                    /\ res = "dup_id" => coll
                    /\ coll => res # "ok"
                    /\ res \in {"recursion_error", "hang"}
                          => WalksACycle(children, parent, p, c) ]_vars

\* C4 witness: a duplicate-id rejection whose parent is not the root and does
\* not carry the id itself: the match is found from the root, elsewhere in the
\* tree.
C4_Witness ==
    /\ Did("add_child")
    /\ lastOp.result = "dup_id"
    /\ IsTree(children, parent)
    /\ parent[lastOp.self] # None
    /\ id[lastOp.self] = NoValue
    /\ lastOp.arg \notin TreeOf(children, parent, lastOp.self)

NoSiblingsShareAName ==
    \A p \in Comp : \A i \in 1..Len(children[p]), j \in 1..Len(children[p]) :
        (i # j /\ name[children[p][i]] # NoValue)
            => name[children[p][i]] # name[children[p][j]]

\* C5: no two children of the same parent ever share a name, and p.add_child(c)
\* fails with the duplicate-name error exactly when c has a name that another
\* child of p has: not for a name used under another parent, not for a child
\* without a name.
C5_SiblingNamesUnique ==
    [][ /\ NoSiblingsShareAName'
        /\ lastOp'.op = "add_child"
             => (lastOp'.result = "dup_name"
                   <=> NameClash(children, lastOp'.self, lastOp'.arg)) ]_vars

\* C5 witness: a duplicate-name rejection in a tree where the same name is
\* already used by children of two different parents.
C5_Witness ==
    /\ Did("add_child")
    /\ lastOp.result = "dup_name"
    /\ \E q \in TreeOf(children, parent, lastOp.self) \ {lastOp.self} :
         \E e1 \in Kids(children, lastOp.self), e2 \in Kids(children, q) :
            e1 # e2 /\ name[e1] # NoValue /\ name[e1] = name[e2]

\* -------------------------------------------------------- lifecycle claims

\* Number of times the pair e occurs in the log.
Count(log, e) == Cardinality({k \in 1..Len(log) : log[k] = e})

\* Position of the first occurrence of e in the log (0: none).
Pos(log, e) ==
    IF \E k \in 1..Len(log) : log[k] = e
    THEN CHOOSE k \in 1..Len(log) : log[k] = e /\ \A j \in 1..(k - 1) : log[j] # e
    ELSE 0

\* The lifecycle fields after the step, as the record the methods work on.
LifeStateAfter ==
    [m |-> is_mounted', ls |-> lifecycle_state', log |-> <<>>, seen |-> <<>>,
     err |-> FALSE]

\* C6 as claimed: a component that is UNMOUNTED is never MOUNTED again and its
\* mounted flag never becomes true again.
C6_NoRemount ==
    [][ \A c \in Comp :
          lifecycle_state[c] = UNMOUNTED
             => (lifecycle_state'[c] # MOUNTED /\ ~is_mounted'[c]) ]_vars

\* C6 as amended: an UNMOUNTED component stays UNMOUNTED and not mounted under
\* update(), unmount(), remove_child and add_child to a parent that is not
\* mounted; only a mount() that reaches it (called on it or on an ancestor, or
\* made by add_child to a mounted parent) brings the same instance back to
\* MOUNTED, with its flag set and a MOUNT event.
C6_RemountOnlyByMount ==
    [][ \A c \in Comp :
          (lifecycle_state[c] = UNMOUNTED
             /\ (lifecycle_state'[c] # UNMOUNTED \/ is_mounted'[c]))
          => /\ lifecycle_state'[c] = MOUNTED
             /\ is_mounted'[c]
             /\ Count(emitted', <<c, EvMOUNT>>) = 1
             /\ \/ /\ lastOp'.op = "mount"
                   /\ c \in Subtree(children, lastOp'.self)
                \/ /\ lastOp'.op = "add_child"
                   /\ lastOp'.result = "ok"
                   /\ is_mounted[lastOp'.self]
                   /\ c \in Subtree(children, lastOp'.arg) ]_vars

\* C6 witness: update() has just been called on an UNMOUNTED component.
C6_Witness ==
    /\ Did("update")
    /\ lifecycle_state[lastOp.self] = UNMOUNTED
    /\ ~is_mounted[lastOp.self]

\* C7: a second mount() right after mount() changes nothing and emits nothing,
\* and the first emits MOUNT exactly once on every node it mounts (and on no
\* other); the same for unmount() and UNMOUNT.
C7_MountUnmountIdempotent ==
    [][ /\ lastOp'.op = "mount" =>
             LET again == mount(LifeStateAfter, children', lastOp'.self)
             IN /\ again.m = is_mounted'
                /\ again.ls = lifecycle_state'
                /\ again.log = <<>>
                /\ is_mounted'[lastOp'.self]
                /\ \A n \in Comp :
                      Count(emitted', <<n, EvMOUNT>>) =
                         IF ~is_mounted[n] /\ is_mounted'[n] THEN 1 ELSE 0
        /\ lastOp'.op = "unmount" =>
             LET again == unmount(LifeStateAfter, children', lastOp'.self, Fuel)
             IN /\ again.m = is_mounted'
                /\ again.ls = lifecycle_state'
                /\ again.log = <<>>
                /\ lastOp'.result = "ok" => ~is_mounted'[lastOp'.self]
                /\ \A n \in Comp :
                      Count(emitted', <<n, EvUNMOUNT>>) =
                         IF is_mounted[n] /\ ~is_mounted'[n] THEN 1 ELSE 0 ]_vars

\* C7 witness: the second of two mount() calls on a component with a child:
\* everything is mounted and the call has emitted nothing.
C7_Witness ==
    /\ Did("mount")
    /\ emitted = <<>>
    /\ children[lastOp.self] # <<>>
    /\ \A n \in Subtree(children, lastOp.self) : lifecycle_state[n] = MOUNTED

\* The nodes of the subtree of c in pre-order, each at its first visit.
RECURSIVE PreOrder(_, _, _)
RECURSIVE PreOrderList(_, _, _, _)
PreOrder(ch, c, seen) ==
    IF InSeq(c, seen) THEN seen
    ELSE PreOrderList(ch, ch[c], 1, Append(seen, c))

PreOrderList(ch, list, k, seen) ==
    IF k > Len(list) THEN seen
    ELSE PreOrderList(ch, list, k + 1, PreOrder(ch, list[k], seen))

\* C8 as claimed: mount() on a component that is not mounted makes it MOUNTED
\* and emits its MOUNT first; the MOUNT of every child that was not mounted
\* comes after it, the children in the order of the children list; and when no
\* node of its tree was mounted, every node of the tree is mounted afterwards,
\* the MOUNT events being in pre-order.
C8_MountPreOrder ==
    [][ (lastOp'.op = "mount" /\ ~is_mounted[lastOp'.self]) =>
          LET c == lastOp'.self
              kids == children[c]
              order == PreOrder(children, c, <<>>)
          IN /\ is_mounted'[c] /\ lifecycle_state'[c] = MOUNTED
             /\ emitted'[1] = <<c, EvMOUNT>>
             /\ \A i \in 1..Len(kids) :
                   ~is_mounted[kids[i]]
                      => Pos(emitted', <<kids[i], EvMOUNT>>) > 1
             /\ \A i \in 1..Len(kids), j \in 1..Len(kids) :
                   (i < j /\ ~is_mounted[kids[i]] /\ ~is_mounted[kids[j]])
                   => Pos(emitted', <<kids[i], EvMOUNT>>)
                         < Pos(emitted', <<kids[j], EvMOUNT>>)
             /\ (\A n \in Subtree(children, c) : ~is_mounted[n])
                   => /\ \A n \in Subtree(children, c) :
                            is_mounted'[n] /\ lifecycle_state'[n] = MOUNTED
                      /\ emitted' = [k \in 1..Len(order) |-> <<order[k], EvMOUNT>>]
        ]_vars

\* C9 as claimed, on well-formed trees: unmount() on a mounted component emits
\* the UNMOUNT of every node it unmounts before the component's own, which is
\* last, and leaves no node of the subtree mounted.
C9_UnmountClearsSubtree ==
    [][ (lastOp'.op = "unmount" /\ is_mounted[lastOp'.self]
           /\ IsTree(children, parent))
        => /\ lastOp'.result = "ok"
           /\ emitted'[Len(emitted')] = <<lastOp'.self, EvUNMOUNT>>
           /\ \A n \in Subtree(children, lastOp'.self) : ~is_mounted'[n] ]_vars

\* C10 as claimed, between well-formed trees: a successful add_child appends the
\* child and sets its parent; under a mounted parent the whole subtree of the
\* child is mounted afterwards, under a parent that is not mounted the mounted
\* flags do not change.
C10_AddChildMountsSubtree ==
    [][ (lastOp'.op = "add_child" /\ lastOp'.result = "ok"
           /\ IsTree(children, parent) /\ IsTree(children', parent'))
        => LET p == lastOp'.self
               c == lastOp'.arg
           IN /\ children' = [children EXCEPT ![p] = Append(@, c)]
              /\ parent' = [parent EXCEPT ![c] = p]
              /\ is_mounted[p]
                   => \A n \in Subtree(children', c) : is_mounted'[n]
              /\ ~is_mounted[p] => is_mounted' = is_mounted ]_vars

\* C11 as claimed: remove_child(child) changes nothing and emits nothing when
\* child is not in the children list of the parent; otherwise it returns with
\* the child taken out of the list, the other children in their order, and the
\* parent reference of the child cleared, the child not being mounted
\* afterwards when the parent was mounted, nothing being unmounted when it was
\* not.
C11_RemoveChild ==
    [][ lastOp'.op = "remove_child" =>
          LET p == lastOp'.self
              c == lastOp'.arg
          IN IF c \notin Kids(children, p)
             THEN /\ children' = children
                  /\ parent' = parent
                  /\ is_mounted' = is_mounted
                  /\ lifecycle_state' = lifecycle_state
                  /\ emitted' = <<>>
             ELSE /\ lastOp'.result = "ok"
                  /\ children' = [children EXCEPT
                                     ![p] = SelectSeq(@, LAMBDA x : x # c)]
                  /\ parent' = [parent EXCEPT ![c] = None]
                  /\ is_mounted[p] => ~is_mounted'[c]
                  /\ ~is_mounted[p]
                        => (is_mounted' = is_mounted /\ emitted' = <<>>) ]_vars

\* -------------------------------------------------------------- state claims

StateOps == {"state_set", "state_update"}

\* The value a key reads as: State.get(key).
Reads(st, c, key) == dict_get(st[c], key, None)

\* C12: a set or update on the state of a mounted component that changes a
\* value makes exactly one update() of that component: its lifecycle state is
\* UPDATED and it emits UPDATE once, then RENDER; on a component that is not
\* mounted the same call makes no update, no UPDATE event and no render.
C12_StateChangeUpdates ==
    [][ (lastOp'.op \in StateOps /\ state' # state) =>
          LET c == lastOp'.self
          IN IF is_mounted[c]
             THEN /\ lifecycle_state'[c] = UPDATED
                  /\ Count(emitted', <<c, EvUPDATE>>) = 1
                  /\ Count(emitted', <<c, EvRENDER>>) = 1
                  /\ Pos(emitted', <<c, EvRENDER>>) = Pos(emitted', <<c, EvUPDATE>>) + 1
             ELSE /\ emitted' = <<>>
                  /\ lifecycle_state' = lifecycle_state ]_vars

\* C13: set(key, v) notifies and records the old value as previous exactly when
\* v differs from the value key reads as (None when unset); afterwards key
\* reads as v, so a set(key, v) that follows a set(key, v) notifies nothing
\* and leaves the value and get_previous(key) as they were.
C13_SetNotifiesOnChange ==
    [][ lastOp'.op = "state_set" =>
          LET c == lastOp'.self
              key == lastOp'.arg[1]
              v == lastOp'.arg[2]
              old_value == Reads(state, c, key)
          IN /\ (notified' # <<>>) <=> (v # old_value)
             /\ Reads(state', c, key) = v
             /\ v # old_value =>
                   /\ notified' = <<SingleChange(key, v, old_value)>>
                   /\ previous_state'[c][key] = old_value
             /\ v = old_value =>
                   /\ state' = state
                   /\ previous_state' = previous_state ]_vars

\* C13 witness: a set of the value the key already has, after a set that
\* changed it: nothing is notified and the previous value is still the one
\* the first set recorded.
C13_Witness ==
    /\ Did("state_set")
    /\ notified = <<>>
    /\ LET c == lastOp.self
           key == lastOp.arg[1]
       IN /\ lastOp.arg[2] = 1
          /\ state[c][key] = 1
          /\ previous_state[c][key] = None

\* The items of a mapping whose value differs from what the key reads as.
ChangedItems(c, updates) ==
    SelectSeq(updates, LAMBDA it : Reads(state, c, it[1]) # it[2])

\* C14: update(mapping) notifies once when a key of the mapping changes value
\* and not at all when none does; the notification carries keys = the keys
\* that changed and updates = the whole mapping, never key, value and
\* old_value, also when one key changed; set notifies with key, value and
\* old_value only.
C14_UpdateNotifiesBatch ==
    [][ /\ lastOp'.op = "state_update" =>
             LET c == lastOp'.self
                 updates == lastOp'.arg
                 changed == ChangedItems(c, updates)
                 keys == [i \in 1..Len(changed) |-> changed[i][1]]
             IN IF changed # <<>>
                THEN /\ Len(notified') = 1
                     /\ notified'[1].names = {"keys", "updates"}
                     /\ notified'[1].keys = keys
                     /\ notified'[1].updates = updates
                ELSE notified' = <<>>
        /\ lastOp'.op = "state_set" =>
             \A i \in 1..Len(notified') :
                notified'[i].names = {"key", "value", "old_value"} ]_vars

\* C14 witness: an update with two keys of which one changed: the
\* notification names that key alone and carries both items.
C14_Witness ==
    /\ Did("state_update")
    /\ Len(lastOp.arg) = 2
    /\ Len(notified) = 1
    /\ Len(notified[1].keys) = 1
    /\ Len(notified[1].updates) = 2

\* C15: get_previous(key, default) is default as long as key has never
\* changed, and after a call that changes key it is the value key read as
\* before that call; a call that does not change key leaves it as it was.
C15_PreviousIsLastValue ==
    /\ [](\A c \in Comp, key \in Keys, default \in Values :
             state[c][key] = Absent => get_previous(c, key, default) = default)
    /\ [][ lastOp'.op \in StateOps =>
             \A c \in Comp, key \in Keys, default \in Values :
                IF Reads(state', c, key) # Reads(state, c, key)
                THEN dict_get(previous_state'[c], key, default) = Reads(state, c, key)
                ELSE dict_get(previous_state'[c], key, default)
                        = get_previous(c, key, default) ]_vars

\* C15 witness: a key that was set to 1 and then to None, next to a key that
\* never changed: get_previous gives 1 for the first, the default for the
\* second.
C15_Witness ==
    /\ lastOp.op \in StateOps
    /\ \E c \in Comp, k1 \in Keys, k2 \in Keys :
          /\ state[c][k1] = None
          /\ get_previous(c, k1, None) = 1
          /\ state[c][k2] = Absent
          /\ get_previous(c, k2, 1) = 1

\* ----------------------------------------------------------- emitter claims

\* The handlers in the emitter's own list for the event, and the callables an
\* emit of the event on the emitter calls.
Registered(eh, x, n) == {eh[x][n][k] : k \in 1..Len(eh[x][n])}
Fires(sig, recv, x, n) == IF n \in sig[x] THEN recv[n] ELSE {}

\* C16 as claimed: emit(event_name) on an emitter runs every handler registered
\* on that emitter for the event before it returns, a handler registered
\* earlier before a handler registered later, each with the emitter as sender.
C16_EmitInRegistrationOrder ==
    [][ lastEv'.op = "emit" =>
          LET x == lastEv'.emitter
              regs == event_handlers[x][lastEv'.event]
          IN /\ \A k \in 1..Len(regs) : Pos(calls', <<regs[k], x>>) > 0
             /\ \A i, j \in 1..Len(regs) :
                   (i < j /\ regs[i] # regs[j])
                      => Pos(calls', <<regs[i], x>>) < Pos(calls', <<regs[j], x>>)
             /\ \A k \in 1..Len(calls') : calls'[k][2] = x ]_vars

\* C17 as claimed: off(event_name, handler) takes that handler off the event of
\* the emitter and every other registration, of any emitter and event, stays
\* and keeps firing; off(event_name) empties the list of that event only; off
\* with an event name the emitter has no signal for or with a handler that is
\* not registered on it, and emit on an event with no handlers, change nothing
\* and call nothing.
C17_OffRemovesExactly ==
    [][ /\ lastEv'.op = "off" =>
             LET x == lastEv'.emitter
                 n == lastEv'.event
                 r == lastEv'.handler
                 known == n \in signals[x]
                            /\ (r = NoHandler \/ r \in Registered(event_handlers, x, n))
             IN /\ calls' = <<>>
                /\ ~known => /\ signals' = signals
                             /\ event_handlers' = event_handlers
                             /\ receivers' = receivers
                /\ known =>
                     /\ event_handlers' = [event_handlers EXCEPT ![x][n] =
                            IF r = NoHandler THEN <<>> ELSE list_remove(@, r)]
                     /\ \A y \in Emitter, m \in EventNames :
                          \A q \in Registered(event_handlers', y, m) :
                             q \in Fires(signals, receivers, y, m)
                                => q \in Fires(signals', receivers', y, m)
        /\ (lastEv'.op = "emit"
              /\ Registered(event_handlers, lastEv'.emitter, lastEv'.event) = {})
             => /\ calls' = <<>>
                /\ signals' = signals
                /\ event_handlers' = event_handlers
                /\ receivers' = receivers ]_vars

\* Every one_time_handler closure once() can have made.
Wrappers ==
    {one_time_handler(x, n, h, k) :
        x \in Emitter, n \in EventNames, h \in HandlerFns, k \in 1..MaxOnce}

\* C18: a handler registered with once() runs at most once, and exactly once in
\* a call of emit that reaches it, also when the handler emits the event again
\* from its body; once it has run its wrapper is in no list and connected to no
\* signal, and a wrapper that is not connected is never connected again, so no
\* later emission runs it.
C18_OnceFiresOnce ==
    [][ \A W \in Wrappers :
          LET fired == Cardinality({k \in 1..Len(calls') : calls'[k][1] = W})
              made == W.serial <= once_made
          IN /\ fired <= 1
             /\ fired = 1 =>
                   /\ W \notin UNION {receivers'[n] : n \in EventNames}
                   /\ \A x \in Emitter, n \in EventNames :
                         W \notin Registered(event_handlers', x, n)
             /\ (made /\ W \notin Connected) =>
                   /\ fired = 0
                   /\ W \notin UNION {receivers'[n] : n \in EventNames}
             /\ (lastEv'.op = "emit"
                   /\ W \in Fires(signals, receivers, lastEv'.emitter, lastEv'.event))
                  => fired = 1 ]_vars

\* C18 witness: an emit has run a once() handler that emits the same event
\* again from its body, and the handler has run one time.
C18_Witness ==
    /\ lastEv.op = "emit"
    /\ lastEv.event = ReemitEvent
    /\ Len(calls) = 1
    /\ calls[1][1].kind = "once"
    /\ calls[1][1].fn = "hr"

\* ------------------------------------------------------------ layout claims

\* The visible children of c, in insertion order.
VisibleChildren(c) == SelectSeq(children[c], LAMBDA k : is_visible[k])

\* Index of the primary axis in <<y, x>> and <<height, width>>, and of the
\* other axis.
Primary(c) == IF layout_direction[c] = VERTICAL THEN 1 ELSE 2
Cross(c) == IF layout_direction[c] = VERTICAL THEN 2 ELSE 1

\* floor(a / n) for a >= 0 and n >= 1.
Floor(a, n) == CHOOSE q \in 0..a : q * n <= a /\ a < (q + 1) * n

\* The extent every visible child of c is due.
SlotExtent(c) ==
    LET n == Len(VisibleChildren(c))
    IN Floor(Max(0, size[c][Primary(c)] - layout_spacing[c] * (n - 1)), n)

\* C19 as claimed: calculate_layout on a container with n >= 1 visible children
\* returns with every visible child at extent floor(max(0, E - s*(n-1)) / n)
\* along the axis of the container and at the container's extent across it,
\* the i-th visible child (from 0) placed at o + i*(extent + s) along the axis
\* and at the container's origin across it.
C19_LayoutSlots ==
    [][ (lastOp'.op = "calculate_layout" /\ VisibleChildren(lastOp'.self) # <<>>) =>
          LET c == lastOp'.self
              vis == VisibleChildren(c)
              a == Primary(c)
              b == Cross(c)
              extent == SlotExtent(c)
          IN /\ lastOp'.result = "ok"
             /\ \A i \in 1..Len(vis) :
                   /\ size'[vis[i]][a] = extent
                   /\ size'[vis[i]][b] = size[c][b]
                   /\ position'[vis[i]][a] =
                         position[c][a] + (i - 1) * (extent + layout_spacing[c])
                   /\ position'[vis[i]][b] = position[c][b] ]_vars

\* The children lists with the hidden children of c taken out of the list of c.
WithoutHidden(c) == [children EXCEPT ![c] = VisibleChildren(c)]

\* C20: calculate_layout leaves the position and size of every hidden child as
\* they were, and the hidden children take no share of the extent and no
\* spacing: the call ends with the positions and sizes it would give if the
\* hidden children were not in the list of the container; on a container
\* without children or without a visible child it changes nothing and emits
\* nothing.
C20_HiddenChildrenUntouched ==
    [][ lastOp'.op = "calculate_layout" =>
          LET c == lastOp'.self
              w == calculate_layout(World, WithoutHidden(c), c, Fuel)
          IN /\ \A k \in Kids(children, c) :
                   ~is_visible[k] => (position'[k] = position[k] /\ size'[k] = size[k])
             /\ position' = w.pos
             /\ size' = w.size
             /\ (lastOp'.result = "ok") <=> ~w.err
             /\ VisibleChildren(c) = <<>> =>
                   /\ lastOp'.result = "ok"
                   /\ position' = position
                   /\ size' = size
                   /\ is_mounted' = is_mounted
                   /\ lifecycle_state' = lifecycle_state
                   /\ emitted' = <<>> ]_vars

\* C20 witness: a layout of a container with spacing whose first child is
\* hidden and whose second child is visible: the visible child starts at the
\* origin of the container and has its whole extent, the hidden child still
\* has the geometry of a new component.
C20_Witness ==
    /\ Did("calculate_layout")
    /\ lastOp.result = "ok"
    /\ LET c == lastOp.self
       IN /\ Len(children[c]) = 2
          /\ ~is_visible[children[c][1]]
          /\ is_visible[children[c][2]]
          /\ children[c][2] # c
          /\ layout_spacing[c] > 0
          /\ size[c][Primary(c)] > 0
          /\ size[children[c][2]][Primary(c)] = size[c][Primary(c)]
          /\ position[children[c][2]] = position[c]
          /\ size[children[c][1]] = <<0, 0>>

\* C30: the handlers an emit calls are the ones connected to the signal of
\* the event when the emit starts, each called once: a handler registered
\* while the emit is under way is not called by it, and a handler taken off
\* while the emit is under way is still called by it when its turn comes.
C30_EmitCallsHandlersOfItsStart ==
    [][ \A x \in Emitter, n \in EventNames :
          (Emit(x, n) /\ n \in signals[x]) =>
             /\ {calls'[i][1] : i \in 1..Len(calls')} = receivers[n]
             /\ Len(calls') = Cardinality(receivers[n]) ]_vars

\* -------------------------------------------------------- propagation claims

\* Some level at or below c reports the event as handled: c is of a handling
\* subclass, or c is a container and a visible child of c reports it.
RECURSIVE Reports(_, _)
Reports(c, n) ==
    \/ handles[c]
    \/ /\ n > 0
       /\ is_container[c]
       /\ \E k \in Kids(children, c) : is_visible[k] /\ Reports(k, n - 1)

\* The visible children of c, last inserted first, up to and including the
\* first one that reports the event as handled.
OfferedChildren(c) ==
    LET kids == reversed(VisibleChildren(c))
        hit == {i \in 1..Len(kids) : Reports(kids[i], NComp)}
    IN IF hit = {} THEN kids
       ELSE SubSeq(kids, 1, CHOOSE i \in hit : \A j \in hit : i <= j)

\* C21: handle_event on a container offers the event to the container first,
\* emitting it there, then to the visible children, last inserted first, up
\* to the first child that returns true and to no child inserted before that
\* one, and to no hidden child; it returns true exactly when the container or
\* a level below it reported handling; handle_event of a plain Component
\* emits the event and returns false.
C21_HandleEventPropagates ==
    [][ (lastOp'.op = "handle_event" /\ ~handles[lastOp'.self]) =>
          LET c == lastOp'.self
          IN /\ offered' # <<>> /\ offered'[1] = c
             /\ emitted' # <<>> /\ emitted'[1] = <<c, EvINPUT>>
             /\ lastOp'.result = IF Reports(c, NComp) THEN "true" ELSE "false"
             /\ is_container[c] =>
                   /\ SelectSeq(Tail(offered'), LAMBDA k : k \in Kids(children, c))
                         = OfferedChildren(c)
                   /\ \A k \in Kids(children, c) :
                         ~is_visible[k] => ~InSeq(k, Tail(offered'))
             /\ ~is_container[c] =>
                   /\ offered' = <<c>>
                   /\ emitted' = <<<<c, EvINPUT>>>>
                   /\ lastOp'.result = "false" ]_vars

\* C22: render on a container emits RENDER on the container first, then
\* renders every visible child, the children in the order of the list; it
\* renders no hidden child and nothing of the subtree of a hidden child, and
\* leaves the children list, the hidden children included, as it was.
C22_RenderVisibleChildren ==
    [][ (lastOp'.op = "render" /\ is_container[lastOp'.self]) =>
          LET c == lastOp'.self
              vis == VisibleChildren(c)
          IN /\ lastOp'.result = "ok"
             /\ emitted' # <<>> /\ emitted'[1] = <<c, EvRENDER>>
             /\ \A i \in 1..Len(vis) : Pos(emitted', <<vis[i], EvRENDER>>) > 1
             /\ \A i, j \in 1..Len(vis) :
                   i < j => Pos(emitted', <<vis[i], EvRENDER>>)
                               <= Pos(emitted', <<vis[j], EvRENDER>>)
             /\ \A k \in Kids(children, c) :
                   ~is_visible[k] =>
                      \A d \in Subtree(children, k) \ {c} :
                         Pos(emitted', <<d, EvRENDER>>) = 0
             /\ children' = children ]_vars

\* ------------------------------------------------------------ setter claims

\* C23: when update() returns on a mounted container, every visible child has
\* the slot of calculate_layout: the extent floor(max(0, E - s*(n-1)) / n) on
\* the axis of the container and the container's extent across it, the i-th
\* visible child at the origin of the container advanced by i-1 times extent
\* plus spacing.
C23_LayoutConsistentAfterUpdate ==
    [][ (lastOp'.op = "update" /\ lastOp'.result = "ok"
            /\ is_container[lastOp'.self] /\ is_mounted[lastOp'.self]) =>
          LET c == lastOp'.self
              vis == VisibleChildren(c)
              a == Primary(c)
              b == Cross(c)
          IN \A i \in 1..Len(vis) :
                /\ size'[vis[i]][a] = SlotExtent(c)
                /\ size'[vis[i]][b] = size'[c][b]
                /\ position'[vis[i]][a] =
                      position'[c][a] + (i - 1) * (SlotExtent(c) + layout_spacing[c])
                /\ position'[vis[i]][b] = position'[c][b] ]_vars

\* C24: assigning position or size stores the value, and makes one update()
\* of the component when the component is mounted and the value differs from
\* the one it had; assigning the value it already has, or assigning on a
\* component that is not mounted, emits no UPDATE.
C24_GeometrySettersUpdateOnChange ==
    [][ lastOp'.op \in {"set_position", "set_size"} =>
          LET c == lastOp'.self
              v == lastOp'.arg
              old == IF lastOp'.op = "set_position" THEN position[c] ELSE size[c]
              new == IF lastOp'.op = "set_position" THEN position'[c] ELSE size'[c]
          IN /\ new = v
             /\ Count(emitted', <<c, EvUPDATE>>)
                   = IF is_mounted[c] /\ v # old THEN 1 ELSE 0 ]_vars

\* C25: set_visible makes one update() of the component, with one UPDATE
\* event, when it flips the flag of a mounted component; setting the flag to
\* the value it has emits nothing, and on a component that is not mounted a
\* flip emits nothing either.
C25_VisibleSetterUpdatesOnFlip ==
    [][ lastOp'.op = "set_visible" =>
          LET c == lastOp'.self
              v == (lastOp'.arg = 1)
          IN /\ is_visible'[c] = v
             /\ Count(emitted', <<c, EvUPDATE>>)
                   = IF is_mounted[c] /\ is_visible[c] # v THEN 1 ELSE 0
             /\ (is_visible[c] = v \/ ~is_mounted[c]) => emitted' = <<>> ]_vars

\* C25 witness: a flip of the flag of a mounted component, which emitted its
\* UPDATE.
C25_Witness ==
    /\ Did("set_visible")
    /\ is_mounted[lastOp.self]
    /\ ~is_visible[lastOp.self]
    /\ emitted # <<>>
    /\ emitted[1] = <<lastOp.self, EvUPDATE>>

\* C26: the axis of every container is "vertical" or "horizontal"; assigning
\* another value raises ValueError, leaves the axis and everything else as it
\* was and emits nothing, assigning an axis stores it; VBox() has the
\* vertical axis and HBox() the horizontal one.
C26_LayoutDirectionValid ==
    /\ [](\A c \in Comp :
             /\ layout_direction[c] \in {VERTICAL, HORIZONTAL}
             /\ VBox_init(World, children, c).raised = "none"
             /\ VBox_init(World, children, c).ws.dir[c] = VERTICAL
             /\ HBox_init(World, children, c).raised = "none"
             /\ HBox_init(World, children, c).ws.dir[c] = HORIZONTAL)
    /\ [][ lastOp'.op = "set_layout_direction" =>
             LET c == lastOp'.self
                 d == lastOp'.arg
             IN IF d \in {VERTICAL, HORIZONTAL}
                THEN layout_direction'[c] = d /\ lastOp'.result # "value_error"
                ELSE /\ lastOp'.result = "value_error"
                     /\ layout_direction' = layout_direction
                     /\ position' = position /\ size' = size
                     /\ lifecycle_state' = lifecycle_state
                     /\ emitted' = <<>> ]_vars

\* C26 witness: a rejected assignment on a mounted container with children.
C26_Witness ==
    /\ Did("set_layout_direction")
    /\ lastOp.result = "value_error"
    /\ is_mounted[lastOp.self]
    /\ children[lastOp.self] # <<>>
    /\ layout_direction[lastOp.self] = HORIZONTAL

\* C27: the spacing of every container is at least 0: the setter stores
\* max(0, input).
C27_SpacingNotNegative ==
    /\ [](\A c \in Comp : layout_spacing[c] >= 0)
    /\ [][ lastOp'.op = "set_layout_spacing" =>
             layout_spacing'[lastOp'.self] = Max(0, lastOp'.arg) ]_vars

\* C27 witness: a negative spacing was assigned to a container, and is stored
\* as 0.
C27_Witness ==
    /\ Did("set_layout_spacing")
    /\ lastOp.arg < 0
    /\ layout_spacing[lastOp.self] = 0

\* ---------------------------------------------------------- singleton claims

\* C28: a name of the registry gets a State object at most once: the object
\* under a name is never replaced or dropped, whatever acquisitions of the
\* registry come in between; create_state fails for a name that has an object
\* and leaves the registry as it was, and gives a new object to a name that
\* has none; get_state returns the object under the name and fails for a name
\* without one.
C28_NamedStateCreatedOnce ==
    [][ /\ \A n \in StateNames : states[n] # NoState => states'[n] = states[n]
        /\ \A n \in StateNames :
             CreateState(n) =>
                IF states[n] # NoState
                THEN lastReg'.result = "value_error" /\ states' = states
                ELSE /\ lastReg'.result = "ok"
                     /\ lastReg'.returned > states_made
                     /\ states' = [states EXCEPT ![n] = lastReg'.returned]
        /\ \A n \in StateNames :
             GetState(n) =>
                /\ states' = states
                /\ IF states[n] # NoState
                   THEN lastReg'.result = "ok" /\ lastReg'.returned = states[n]
                   ELSE lastReg'.result = "key_error" ]_vars

\* C29: every acquisition of the registry returns the one StateManager and
\* every acquisition of the bus the one EventBus, and an acquisition after the
\* first leaves the fields of the instance as they were; an emit through a
\* reference to the bus calls every handler registered for the event through
\* a reference to the bus.
C29_SingletonsKeepTheirState ==
    [][ /\ AcquireManager =>
             /\ lastReg'.returned = TheManager
             /\ manager_made => states' = states
        /\ AcquireBus =>
             /\ lastReg'.returned = Bus
             /\ bus_made => (signals' = signals /\ event_handlers' = event_handlers)
        /\ \A n \in EventNames :
             BusEmit(n) =>
                \A i \in 1..Len(event_handlers[Bus][n]) :
                   \E j \in 1..Len(calls') :
                      calls'[j][1] = event_handlers[Bus][n][i] ]_vars

\* ------------------------------------------------ lifecycle consistency claims

\* C33: update() on a component that is not mounted, CREATED or UNMOUNTED,
\* leaves every lifecycle state and mounted flag as it was and emits nothing,
\* so UPDATED is entered by a mounted component only; unmount() on a component
\* that was never mounted leaves it CREATED and emits nothing, on it or on its
\* children.
C33_UpdatedOnlyWhileMounted ==
    [][ /\ (lastOp'.op = "update" /\ ~is_mounted[lastOp'.self]) =>
             /\ lifecycle_state' = lifecycle_state
             /\ is_mounted' = is_mounted
             /\ emitted' = <<>>
        /\ (lastOp'.op = "unmount" /\ lifecycle_state[lastOp'.self] = CREATED) =>
             /\ lifecycle_state' = lifecycle_state
             /\ is_mounted' = is_mounted
             /\ lastOp'.result = "ok"
             /\ emitted' = <<>>
        /\ \A c \in Comp :
             (lifecycle_state'[c] = UPDATED /\ lifecycle_state[c] # UPDATED)
                => is_mounted[c] /\ is_mounted'[c] ]_vars

\* C33 witness: unmount() has just been called on a component that was never
\* mounted and has a mounted child.
C33_Witness ==
    /\ Did("unmount")
    /\ lifecycle_state[lastOp.self] = CREATED
    /\ \E k \in Kids(children, lastOp.self) : is_mounted[k]
    /\ emitted = <<>>

\* C38: the mounted flag of every component is true exactly when its
\* lifecycle state is MOUNTED or UPDATED, and false exactly when it is CREATED
\* or UNMOUNTED.
C38_FlagAgreesWithLifecycleState ==
    \A c \in Comp :
       /\ is_mounted[c] <=> lifecycle_state[c] \in {MOUNTED, UPDATED}
       /\ ~is_mounted[c] <=> lifecycle_state[c] \in {CREATED, UNMOUNTED}

\* C38 witness: the four lifecycle states have all been entered: a component
\* is UPDATED next to an UNMOUNTED one after a call that mounted a third.
C38_Witness ==
    /\ \E c \in Comp : lifecycle_state[c] = UPDATED
    /\ \E c \in Comp : lifecycle_state[c] = UNMOUNTED
    /\ \E c \in Comp : lifecycle_state[c] = MOUNTED
    /\ emitted # <<>>

\* ------------------------------------------------------------- id reuse claim

\* The ids carried by the subtree of c.
IdsOf(ch, c) == {id[a] : a \in Subtree(ch, c)} \ {NoValue}

\* C34: the ids of a removed subtree are free again.  Right after a
\* remove_child(c) on p that succeeded, p.add_child(c) succeeds, and so does
\* q.add_child(d) for a node q of the tree of p and another component d that
\* carries an id of the subtree of c, is not yet a child of q, has no name of
\* a child of q and no id of a node still attached to the tree of q.
C34_RemovedIdsAreFree ==
    [][ (lastOp.op = "remove_child" /\ lastOp.result = "ok"
            /\ lastOp'.op = "add_child") =>
          LET p == lastOp.self
              c == lastOp.arg
              q == lastOp'.self
              d == lastOp'.arg
          IN /\ (q = p /\ d = c) => lastOp'.result = "ok"
             /\ (/\ d # c
                 /\ q \in TreeOf(children, parent, p)
                 /\ IdsOf(children, d) \cap IdsOf(children, c) # {}
                 /\ d \notin Kids(children, q)
                 /\ ~NameClash(children, q, d)
                 /\ ~IdCollision(children, parent, q, d))
                => lastOp'.result = "ok" ]_vars

\* -------------------------------------------------------- emit order claims

\* C32: every lifecycle event is emitted after the fields are assigned: at
\* the emit of MOUNT the emitter is MOUNTED with its flag set, at the emit of
\* UPDATE it is UPDATED, at the emit of UNMOUNT it is UNMOUNTED with its flag
\* cleared; an update() that emits anything emits UPDATE, then RENDER.
C32_EventsFollowStateChange ==
    /\ Len(observed) = Len(emitted)
    /\ \A i \in 1..Len(emitted) :
          /\ emitted[i][2] = EvMOUNT => observed[i] = <<TRUE, MOUNTED>>
          /\ emitted[i][2] = EvUPDATE => observed[i] = <<TRUE, UPDATED>>
          /\ emitted[i][2] = EvUNMOUNT => observed[i] = <<FALSE, UNMOUNTED>>
    /\ (Did("update") /\ emitted # <<>>) =>
          emitted = <<<<lastOp.self, EvUPDATE>>, <<lastOp.self, EvRENDER>>>>

\* C32 witness: an unmount() that emitted UNMOUNT on a child first, then on
\* the component.
C32_Witness ==
    /\ Did("unmount")
    /\ Len(emitted) >= 2
    /\ emitted[Len(emitted)] = <<lastOp.self, EvUNMOUNT>>
    /\ observed[1] = <<FALSE, UNMOUNTED>>

\* ------------------------------------------------------ layout upkeep claims

\* The visible children of c have the slots of calculate_layout for the
\* position, size, axis and spacing of c: the fields are passed in, so that
\* the statement can be made of the state after a step.
LaidOut(ch, vis, pos, sz, dir, sp, c) ==
    LET kids == SelectSeq(ch[c], LAMBDA k : vis[k])
        n == Len(kids)
        a == IF dir[c] = VERTICAL THEN 1 ELSE 2
        b == IF dir[c] = VERTICAL THEN 2 ELSE 1
        extent == IF n = 0 THEN 0 ELSE Max(0, sz[c][a] - sp[c] * (n - 1)) \div n
    IN \A i \in 1..n :
          /\ sz[kids[i]][a] = extent
          /\ sz[kids[i]][b] = sz[c][b]
          /\ pos[kids[i]][a] = pos[c][a] + (i - 1) * (extent + sp[c])
          /\ pos[kids[i]][b] = pos[c][b]

LaidOutAfter(c) ==
    LaidOut(children', is_visible', position', size', layout_direction',
            layout_spacing', c)

\* C31: when a change of the state of a mounted container makes its update,
\* no RENDER of the container or of one of its children follows the UPDATE of
\* the container before calculate_layout has run: the emit that follows the
\* UPDATE in the log is not such a RENDER.
C31_LayoutBeforeRender ==
    [][ (lastOp'.op \in {"state_set", "state_update"} /\ notified' # <<>>
            /\ is_container[lastOp'.self] /\ is_mounted[lastOp'.self]) =>
          LET c == lastOp'.self
              i == Pos(emitted', <<c, EvUPDATE>>)
          IN /\ i > 0
             /\ i < Len(emitted') =>
                   /\ emitted'[i + 1] # <<c, EvRENDER>>
                   /\ \A k \in Kids(children, c) :
                         emitted'[i + 1] # <<k, EvRENDER>> ]_vars

\* C36: when calculate_layout of a container returns, every visible child
\* that is a container has its own visible children in the slots of its new
\* position and size, mounted or not.
C36_LayoutReachesNestedContainers ==
    [][ (lastOp'.op = "calculate_layout" /\ lastOp'.result = "ok") =>
          \A k \in Kids(children, lastOp'.self) :
             (is_visible[k] /\ is_container[k]) => LaidOutAfter(k) ]_vars

\* C40: the layout of a mounted container follows its set of visible
\* children: after a flip of the visibility of a child, an add_child or a
\* remove_child, the visible children of the container have the slots of
\* calculate_layout for the new set.
C40_LayoutFollowsVisibleChildren ==
    [][ /\ (lastOp'.op = "set_visible" /\ lastOp'.result = "ok"
              /\ is_visible'[lastOp'.self] # is_visible[lastOp'.self]) =>
             \A p \in Comp :
                (is_container[p] /\ is_mounted[p] /\ lastOp'.self \in Kids(children, p))
                   => LaidOutAfter(p)
        /\ (lastOp'.op \in {"add_child", "remove_child"} /\ lastOp'.result = "ok"
              /\ is_container[lastOp'.self] /\ is_mounted[lastOp'.self]) =>
             LaidOutAfter(lastOp'.self) ]_vars

\* C39: after calculate_layout the visible children lie inside the container
\* along its axis and do not overlap: every child starts at or after the
\* origin of the container, the last one ends at or before the origin plus
\* the extent of the container, and each starts at or after the end of the
\* one before it.
C39_ChildrenInsideContainer ==
    [][ (lastOp'.op = "calculate_layout" /\ lastOp'.result = "ok") =>
          LET c == lastOp'.self
              kids == VisibleChildren(c)
              n == Len(kids)
              a == Primary(c)
          IN /\ \A i \in 1..n : position'[kids[i]][a] >= position'[c][a]
             /\ n > 0 => position'[kids[n]][a] + size'[kids[n]][a]
                            <= position'[c][a] + size'[c][a]
             /\ \A i \in 1..(n - 1) :
                   position'[kids[i + 1]][a]
                      >= position'[kids[i]][a] + size'[kids[i]][a] ]_vars

\* ------------------------------------------------------------ isolation claim

\* C37: emitters are isolated from one another: an emit on an emitter runs
\* handlers registered on that emitter only, and an off on an emitter leaves
\* every registration of every other emitter firing.
C37_EmittersAreIsolated ==
    [][ /\ lastEv'.op = "emit" =>
             \A k \in 1..Len(calls') :
                \E m \in EventNames :
                   calls'[k][1] \in Registered(event_handlers, lastEv'.emitter, m)
        /\ lastEv'.op = "off" =>
             \A y \in Emitter \ {lastEv'.emitter}, m \in EventNames :
                \A q \in Registered(event_handlers, y, m) :
                   q \in Fires(signals, receivers, y, m)
                      => q \in Fires(signals', receivers', y, m) ]_vars

\* C35: a state.set call in a program whose handlers all write a fixed value
\* returns, with update() calls nested at most one inside another; a call
\* that ends in RecursionError has a handler that writes a changing value.
C35_FixedHandlersConverge ==
    [][ lastOp'.op = "state_set" =>
              /\ (\A e \in Comp : handler_of[e].writes # "changing")
                    => lastOp'.result = "ok" /\ nesting' <= 2
              /\ lastOp'.result = "recursion_error"
                    => \E e \in Comp : handler_of[e].writes = "changing" ]_vars

====
